---- MODULE Spec2Model ----
(***************************************************************************)
(* A model of the metric-extraction core of edgar_parser: the tag          *)
(* resolver, the EBIT, debt, cash and balance-sheet calculators, the       *)
(* period identifier and aligner, the ratio engine and the quarterly       *)
(* de-cumulation pass of src/src/edgar_parser.                             *)
(*                                                                         *)
(* Encoding of the Python values:                                          *)
(*   - None and the empty dict are the empty function <<>>; a number that  *)
(*     may be None (an observation's 'val', a 'quarterly_value') is <<>>   *)
(*     or the one-element tuple <<n>>; a field that is always a number is  *)
(*     a plain integer;                                                    *)
(*   - a dict is a function from its keys (strings) to its values;         *)
(*   - an ISO date string "YYYY-MM-DD" is the natural number YYYYMMDD:     *)
(*     the order of fixed-width digit strings is the order of the numbers, *)
(*     and the prefix [:4] is the quotient by 10000;                       *)
(*   - gaap_data[tag] is the tag's list tag_data['units']['USD']; a tag    *)
(*     without 'units' or without a 'USD' list is skipped by every         *)
(*     function modelled here exactly as an absent tag is, so it is        *)
(*     modelled as absent.  Every observation carries 'end', 'filed' and   *)
(*     'form'.                                                             *)
(***************************************************************************)
EXTENDS Integers, Sequences, FiniteSets, TLC

VARIABLES
    pc,                   \* which operation has run
    facts,                \* edgar_data['facts']['us-gaap'] given to parse_company_data
    include_quarterly,    \* argument of parse_company_data
    parsed,               \* structure returned by parse_company_data
    quarterly_periods,    \* list handed to _calculate_quarterly_deltas (mutated in place)
    identified_periods,   \* result of _identify_fiscal_periods
    requested_end,        \* period end argument of _filter_gaap_to_period
    gaap_data,            \* fact set handed to a calculator or to the resolver
    form_type,            \* form type argument
    tag_list,             \* candidate list argument of _get_tag_value
    tag_value,            \* result of _get_tag_value
    ebit_result,          \* result of calculate_ebit / argument of _calculate_roce
    debt_result,          \* result of calculate_total_debt
    assets_result,        \* argument of _calculate_roce
    current_liabilities_result, \* argument of _calculate_roce
    roce_result,          \* result of _calculate_roce
    cash_result,          \* result of calculate_cash
    earnings_yield_components, \* result of _calculate_earnings_yield_components
    ebit,                 \* argument of validate_ebit
    net_income,           \* argument of validate_ebit (may be None)
    revenues,             \* argument of validate_ebit (may be None)
    validation            \* result of validate_ebit

vars == <<pc, facts, include_quarterly, parsed, quarterly_periods, identified_periods,
          requested_end, gaap_data, form_type, tag_list, tag_value, ebit_result,
          debt_result, assets_result, current_liabilities_result, roce_result,
          cash_result, earnings_yield_components, ebit, net_income, revenues,
          validation>>

parseVars == <<facts, include_quarterly, parsed, quarterly_periods, identified_periods,
               requested_end>>

calcVars == <<gaap_data, form_type, tag_list, tag_value, debt_result>>

roceVars == <<ebit_result, assets_result, current_liabilities_result, roce_result,
              cash_result, earnings_yield_components>>

validateVars == <<ebit, net_income, revenues, validation>>

---------------------------------------------------------------------------
(* Python values *)

None == <<>>

Some(n) == <<n>>

\* Python truthiness of a number-or-None
Truthy(x) == x # None /\ x[1] # 0

\* x if x else 0
OrZero(x) == IF Truthy(x) THEN x[1] ELSE 0

Abs(n) == IF n < 0 THEN -n ELSE n

\* sum(s)
RECURSIVE SumSeq(_)
SumSeq(s) == IF s = <<>> THEN 0 ELSE Head(s) + SumSeq(Tail(s))

Range(s) == {s[i] : i \in DOMAIN s}

\* period_end[:4]
Year(date) == date \div 10000

FORM_10K == "10-K"

FORM_10Q == "10-Q"

Forms == {FORM_10K, FORM_10Q}

\* an exception that leaves the function (the f-string format of None)
TypeError == [raised |-> "TypeError"]

\* a one-entry dict when the value is not None, else the empty dict
Entry(key, value) == IF value # None THEN key :> value ELSE <<>>

\* ', '.join(keys)
RECURSIVE Join(_)
Join(keys) ==
    IF keys = <<>> THEN ""
    ELSE IF Len(keys) = 1 THEN Head(keys)
    ELSE Head(keys) \o ", " \o Join(Tail(keys))

---------------------------------------------------------------------------
(* Tag resolver: _get_tag_value, the same code in all four calculators *)

\* [v for v in values if v.get('form') == form_type]
FormValues(values, ft) == SelectSeq(values, LAMBDA v : v.form = ft)

\* the sort key (x.get('end', ''), x.get('filed', '')), compared as tuples
KeyLess(a, b) == a.end < b.end \/ (a.end = b.end /\ a.filed < b.filed)

SameKey(a, b) == a.end = b.end /\ a.filed = b.filed

\* values.sort(key=..., reverse=True); values[0]: the sort is stable, so of
\* the observations with the greatest key the first in list order comes first
MostRecent(values) ==
    LET i == CHOOSE k \in DOMAIN values :
                 /\ \A j \in DOMAIN values : ~KeyLess(values[k], values[j])
                 /\ \A j \in 1..(k - 1) : ~SameKey(values[j], values[k])
    IN  values[i]

\* the dict _get_tag_value returns for the most recent observation of a tag
TagData(most_recent, tag) ==
    [val |-> most_recent.val, end |-> most_recent.end,
     filed |-> most_recent.filed, tag |-> tag]

RECURSIVE GetTagValue(_, _, _)
GetTagValue(gaap, tags, ft) ==
    IF tags = <<>> THEN None
    ELSE IF Head(tags) \in DOMAIN gaap /\ FormValues(gaap[Head(tags)], ft) # <<>>
         THEN TagData(MostRecent(FormValues(gaap[Head(tags)], ft)), Head(tags))
         ELSE GetTagValue(gaap, Tail(tags), ft)

---------------------------------------------------------------------------
(* Debt calculator *)

LT_DEBT_NONCURRENT_TAGS ==
    <<"LongTermDebtNoncurrent", "LongTermDebtAndCapitalLeaseObligations", "LongTermDebt">>

LT_DEBT_INCLUDING_CURRENT_TAGS ==
    <<"LongTermDebtAndCapitalLeaseObligationsIncludingCurrentMaturities",
      "LongTermDebtIncludingCurrentMaturities">>

LT_DEBT_CURRENT_TAGS ==
    <<"LongTermDebtCurrent", "LongTermDebtAndCapitalLeaseObligationsCurrent",
      "LongTermDebtMaturitiesRepaymentsOfPrincipalInNextTwelveMonths">>

ST_BORROWINGS_TAGS == <<"ShortTermBorrowings">>

ST_BORROWINGS_COMPONENT_TAGS == <<"ShortTermBankLoansAndNotesPayable", "CommercialPaper">>

\* the tag data of every tag of the list that resolves on its own, in list order
\* if tag_data: results.append(tag_data)
AppendIfFound(tag_data, rest) == IF tag_data # None THEN <<tag_data>> \o rest ELSE rest

RECURSIVE CheckForDuplicateTags(_, _, _)
CheckForDuplicateTags(gaap, tags, ft) ==
    IF tags = <<>> THEN <<>>
    ELSE AppendIfFound(GetTagValue(gaap, <<Head(tags)>>, ft),
                       CheckForDuplicateTags(gaap, Tail(tags), ft))

\* _calculate_st_borrowings, once its three tags are resolved
StBorrowings(st_borrowings, bank_loans, commercial_paper) ==
    IF st_borrowings # None
    THEN [value |-> OrZero(st_borrowings.val),
          method |-> "Direct ShortTermBorrowings",
          source |-> st_borrowings]
    ELSE IF bank_loans # None \/ commercial_paper # None
    THEN [value |-> (IF bank_loans # None THEN OrZero(bank_loans.val) ELSE 0)
                    + (IF commercial_paper # None THEN OrZero(commercial_paper.val) ELSE 0),
          method |-> "Sum of components (bank loans + commercial paper)",
          sources |-> Entry("bank_loans", bank_loans)
                      @@ Entry("commercial_paper", commercial_paper)]
    ELSE None

CalculateStBorrowings(gaap, ft) ==
    StBorrowings(GetTagValue(gaap, ST_BORROWINGS_TAGS, ft),
                 GetTagValue(gaap, <<"ShortTermBankLoansAndNotesPayable">>, ft),
                 GetTagValue(gaap, <<"CommercialPaper">>, ft))

\* the keys of components in insertion order
ComponentKeys(components) ==
    SelectSeq(<<"lt_debt_including_current", "lt_debt_noncurrent", "lt_debt_current",
                "st_borrowings">>,
              LAMBDA k : k \in DOMAIN components)

DetermineMethod(components) ==
    LET has_noncurrent == "lt_debt_noncurrent" \in DOMAIN components
        has_current == "lt_debt_current" \in DOMAIN components
        has_st == "st_borrowings" \in DOMAIN components
        has_including == "lt_debt_including_current" \in DOMAIN components
    IN  IF has_including THEN "2-component (LT including current + ST borrowings)"
        ELSE IF has_noncurrent /\ has_current /\ has_st
        THEN "3-component (LT non-current + LT current + ST borrowings)"
        ELSE IF has_noncurrent /\ has_current
        THEN "2-component (LT non-current + LT current, no ST borrowings)"
        ELSE IF has_noncurrent /\ has_st
        THEN "2-component (LT non-current + ST borrowings, no LT current)"
        ELSE "Partial (" \o Join(ComponentKeys(components)) \o ")"

\* STEP 1 of calculate_total_debt: a tag that includes current maturities
\* resolved, and the short-term borrowings are added
TotalDebtIncluding(lt_debt_including_current, st_borrowings) ==
    [value |-> OrZero(lt_debt_including_current.val)
               + (IF st_borrowings # None THEN st_borrowings.value ELSE 0),
     method |-> "2-component (LT including current + ST borrowings)",
     components |-> ("lt_debt_including_current" :> lt_debt_including_current)
                    @@ Entry("st_borrowings", st_borrowings),
     warnings |-> <<[warning |-> "includes current maturities - skipping separate current portion",
                     tag |-> lt_debt_including_current.tag]>>]

\* the f-string f"${values[0]:,}" of the same-value warning raises TypeError
\* when the common value of the matching tags is None
CurrentPortionRaises(matches) ==
    /\ Len(matches) > 1
    /\ Cardinality({matches[i].val : i \in DOMAIN matches}) = 1
    /\ matches[1].val = None

\* variant: several matches are always reported as one value counted once
CurrentPortionWarnings_NeverDiffer(matches) ==
    IF Len(matches) > 1
    THEN <<[warning |-> "tags for current portion with same value - counted once only",
            count |-> Len(matches), value |-> matches[1].val]>>
    ELSE IF Len(matches) = 1 THEN <<>>
    ELSE <<[warning |-> "Could not find current portion of long-term debt"]>>

\* the warning of the current-portion step
CurrentPortionWarnings(matches) ==
    LET values == [i \in DOMAIN matches |-> matches[i].val]
    IN  IF Len(matches) > 1
        THEN IF Cardinality(Range(values)) = 1
             THEN <<[warning |-> "tags for current portion with same value - counted once only",
                     count |-> Len(matches), value |-> values[1]]>>
             ELSE <<[warning |-> "WARNING: tags for current portion with DIFFERENT values - using first one but needs review",
                     count |-> Len(matches), values |-> values]>>
        ELSE IF Len(matches) = 1 THEN <<>>
        ELSE <<[warning |-> "Could not find current portion of long-term debt"]>>

\* what the current-portion step adds to total_debt: in each of its three
\* branches with a match, the value of the first match, once
CurrentPortionAmount_SumAll(matches) ==
    SumSeq([i \in DOMAIN matches |-> OrZero(matches[i].val)])

CurrentPortionAmount(matches) ==
    IF Len(matches) >= 1 THEN OrZero(matches[1].val) ELSE 0

\* STEP 2 of calculate_total_debt: the standard 3-component approach, once
\* its tags are resolved
TotalDebtStandard(lt_debt_noncurrent, lt_debt_current_matches, st_borrowings) ==
    LET components ==
            Entry("lt_debt_noncurrent", lt_debt_noncurrent)
            @@ (IF Len(lt_debt_current_matches) >= 1
                THEN "lt_debt_current" :> lt_debt_current_matches[1] ELSE <<>>)
            @@ Entry("st_borrowings", st_borrowings)
        warnings ==
            (IF lt_debt_noncurrent # None THEN <<>>
             ELSE <<[warning |-> "Could not find non-current long-term debt"]>>)
            \o CurrentPortionWarnings(lt_debt_current_matches)
        total_debt ==
            (IF lt_debt_noncurrent # None THEN OrZero(lt_debt_noncurrent.val) ELSE 0)
            + CurrentPortionAmount(lt_debt_current_matches)
            + (IF st_borrowings # None THEN st_borrowings.value ELSE 0)
    IN  IF CurrentPortionRaises(lt_debt_current_matches) THEN TypeError
        ELSE IF components = <<>> THEN None
        ELSE [value |-> total_debt,
              method |-> DetermineMethod(components),
              components |-> components,
              warnings |-> IF warnings # <<>> THEN warnings ELSE None]

\* calculate_total_debt, once the including-current tag is resolved
TotalDebt_AlwaysStandard(lt_debt_including_current, gaap, ft) ==
    TotalDebtStandard(GetTagValue(gaap, LT_DEBT_NONCURRENT_TAGS, ft),
                      CheckForDuplicateTags(gaap, LT_DEBT_CURRENT_TAGS, ft),
                      CalculateStBorrowings(gaap, ft))

TotalDebt(lt_debt_including_current, gaap, ft) ==
    IF lt_debt_including_current # None
    THEN TotalDebtIncluding(lt_debt_including_current, CalculateStBorrowings(gaap, ft))
    ELSE TotalDebtStandard(GetTagValue(gaap, LT_DEBT_NONCURRENT_TAGS, ft),
                           CheckForDuplicateTags(gaap, LT_DEBT_CURRENT_TAGS, ft),
                           CalculateStBorrowings(gaap, ft))

CalculateTotalDebt(gaap, ft) ==
    TotalDebt(GetTagValue(gaap, LT_DEBT_INCLUDING_CURRENT_TAGS, ft), gaap, ft)

---------------------------------------------------------------------------
(* EBIT calculator *)

OPERATING_INCOME_DIRECT_TAGS == <<"OperatingIncomeLoss">>

REVENUES_TAGS ==
    <<"Revenues", "RevenueFromContractWithCustomerExcludingAssessedTax",
      "RevenueFromContractWithCustomerIncludingAssessedTax">>

COSTS_AND_EXPENSES_TAGS == <<"CostsAndExpenses">>

PRETAX_INCOME_TAGS ==
    <<"IncomeLossFromContinuingOperationsBeforeIncomeTaxesExtraordinaryItemsNoncontrollingInterest",
      "IncomeLossFromContinuingOperationsBeforeIncomeTaxesMinorityInterestAndIncomeLossFromEquityMethodInvestments">>

COGS_TAGS == <<"CostOfGoodsAndServicesSold">>

OPERATING_EXPENSES_TAGS == <<"OperatingCostsAndExpenses">>

NET_INCOME_TAGS ==
    <<"NetIncomeLoss", "ProfitLoss", "NetIncomeLossAvailableToCommonStockholdersBasic">>

INCOME_TAX_TAGS == <<"IncomeTaxExpenseBenefit">>

INTEREST_EXPENSE_TAGS == <<"InterestExpenseDebt", "InterestExpense">>

\* tolerance = 1_000_000
Tolerance == 1000000

\* x and x['val'] is not None
HasVal(x) == x # None /\ x.val # None

ValidationNote_Strict(ebit_value, pretax) ==
    IF HasVal(pretax)
    THEN LET difference == Abs(ebit_value - pretax.val[1])
         IN  IF difference < Tolerance
             THEN [status |-> "passed", difference |-> difference]
             ELSE [status |-> "warning", difference |-> difference]
    ELSE None

\* the validation of Revenues - CostsAndExpenses against pre-tax income
ValidationNote(ebit_value, pretax) ==
    IF HasVal(pretax)
    THEN LET difference == Abs(ebit_value - pretax.val[1])
         IN  IF difference <= Tolerance
             THEN [status |-> "passed", difference |-> difference]
             ELSE [status |-> "warning", difference |-> difference]
    ELSE None

\* a tier's result tuple (ebit_value, method, sources, validation_note)
TierResult(value, method, sources, validation_note) ==
    [value |-> value, method |-> method, sources |-> sources, validation |-> validation_note]

\* _tier1_direct_operating_income, once its tags are resolved
Tier1Result(operating_income, revs, costs, pretax) ==
    IF HasVal(operating_income)
    THEN TierResult(operating_income.val[1], "Direct OperatingIncomeLoss",
                    [operating_income |-> operating_income], None)
    ELSE IF HasVal(revs) /\ HasVal(costs)
    THEN TierResult(revs.val[1] - costs.val[1], "Revenues - CostsAndExpenses",
                    [revenues |-> revs, costs_and_expenses |-> costs]
                    @@ Entry("pretax_income_validation", pretax),
                    ValidationNote(revs.val[1] - costs.val[1], pretax))
    ELSE None

Tier1DirectOperatingIncome(gaap, ft) ==
    Tier1Result(GetTagValue(gaap, OPERATING_INCOME_DIRECT_TAGS, ft),
                GetTagValue(gaap, REVENUES_TAGS, ft),
                GetTagValue(gaap, COSTS_AND_EXPENSES_TAGS, ft),
                GetTagValue(gaap, PRETAX_INCOME_TAGS, ft))

\* _tier2_build_from_components, once its tags are resolved
Tier2Result(revs, cogs, opex) ==
    IF HasVal(revs) /\ HasVal(cogs) /\ HasVal(opex)
    THEN TierResult(revs.val[1] - cogs.val[1] - opex.val[1], "Revenues - COGS - OpEx",
                    [revenues |-> revs, cost_of_goods_and_services_sold |-> cogs,
                     operating_costs_and_expenses |-> opex], None)
    ELSE None

Tier2BuildFromComponents(gaap, ft) ==
    Tier2Result(GetTagValue(gaap, REVENUES_TAGS, ft),
                GetTagValue(gaap, COGS_TAGS, ft),
                GetTagValue(gaap, OPERATING_EXPENSES_TAGS, ft))

\* _tier3_work_backwards_from_net_income, once its tags are resolved
Tier3Result(ni, tax, interest) ==
    IF HasVal(ni) /\ HasVal(tax) /\ HasVal(interest)
    THEN TierResult(ni.val[1] + tax.val[1] + interest.val[1], "NetIncome + Tax + Interest",
                    [net_income |-> ni, income_tax_expense_benefit |-> tax,
                     interest_expense |-> interest], None)
    ELSE None

Tier3WorkBackwardsFromNetIncome(gaap, ft) ==
    Tier3Result(GetTagValue(gaap, NET_INCOME_TAGS, ft),
                GetTagValue(gaap, INCOME_TAX_TAGS, ft),
                GetTagValue(gaap, INTEREST_EXPENSE_TAGS, ft))

\* _tier4_pretax_plus_interest, once its tags are resolved
Tier4Result(pretax, interest) ==
    IF HasVal(pretax) /\ HasVal(interest)
    THEN TierResult(pretax.val[1] + interest.val[1], "PreTaxIncome + Interest",
                    [pretax_income |-> pretax, interest_expense |-> interest], None)
    ELSE None

Tier4PretaxPlusInterest(gaap, ft) ==
    Tier4Result(GetTagValue(gaap, PRETAX_INCOME_TAGS, ft),
                GetTagValue(gaap, INTEREST_EXPENSE_TAGS, ft))

\* the tier methods in the order calculate_ebit tries them
TierMethod(tier_num, gaap, ft) ==
    CASE tier_num = 1 -> Tier1DirectOperatingIncome(gaap, ft)
      [] tier_num = 2 -> Tier2BuildFromComponents(gaap, ft)
      [] tier_num = 3 -> Tier3WorkBackwardsFromNetIncome(gaap, ft)
      [] tier_num = 4 -> Tier4PretaxPlusInterest(gaap, ft)

\* the dict calculate_ebit returns for the result of tier tier_num
EbitOfTier(result, tier_num) ==
    [value |-> result.value, method |-> result.method, tier |-> tier_num,
     sources |-> result.sources, validation |-> result.validation]

CalculateEbit_LastTierWins(gaap, ft) ==
    LET hits == {n \in 1..4 : TierMethod(n, gaap, ft) # None}
    IN  IF hits = {} THEN None
        ELSE LET tier_num == CHOOSE n \in hits : \A m \in hits : m <= n
             IN  EbitOfTier(TierMethod(tier_num, gaap, ft), tier_num)

\* for tier_num, tier_method in enumerate([...], start=1): the first result wins
RECURSIVE TryTiers(_, _, _)
TierOutcome(result, tier_num, gaap, ft) ==
    IF result # None THEN EbitOfTier(result, tier_num)
    ELSE TryTiers(tier_num + 1, gaap, ft)

TryTiers(tier_num, gaap, ft) ==
    IF tier_num > 4 THEN None
    ELSE TierOutcome(TierMethod(tier_num, gaap, ft), tier_num, gaap, ft)

CalculateEbit(gaap, ft) == TryTiers(1, gaap, ft)

\* validate_ebit: (is_valid, message); the message is the list of checks joined
\* by " | ", kept here as the list of the checks' marks and subjects
ValidateEbit_NetIncomeSoft(e, ni, rev) ==
    LET check1 == IF e <= 0 THEN <<[mark |-> "warning", check |-> "EBIT is non-positive"]>>
                  ELSE <<[mark |-> "ok", check |-> "EBIT is positive"]>>
        below == ni # None /\ e < ni[1]
        check2 == IF ni = None THEN <<>>
                  ELSE IF below THEN <<[mark |-> "warning", check |-> "EBIT < Net Income"]>>
                  ELSE <<[mark |-> "ok", check |-> "EBIT > Net Income"]>>
    IN  [is_valid |-> TRUE, checks |-> check1 \o check2]

ValidateEbit(e, ni, rev) ==
    LET check1 == IF e <= 0 THEN <<[mark |-> "warning", check |-> "EBIT is non-positive"]>>
                  ELSE <<[mark |-> "ok", check |-> "EBIT is positive"]>>
        below == ni # None /\ e < ni[1]
        check2 == IF ni = None THEN <<>>
                  ELSE IF below THEN <<[mark |-> "fail", check |-> "EBIT < Net Income - impossible"]>>
                  ELSE <<[mark |-> "ok", check |-> "EBIT > Net Income"]>>
        \* margin = (ebit / revenues) * 100 with revenues > 0, compared exactly (on
        \* the integers of this model the float comparisons give the same answers)
        has_margin == rev # None /\ rev[1] > 0
        out_of_range == has_margin /\ (e * 100 < 0 \/ e * 100 > 100 * rev[1])
        typical == has_margin /\ 5 * rev[1] <= e * 100 /\ e * 100 <= 30 * rev[1]
        check3 == IF ~has_margin THEN <<>>
                  ELSE IF out_of_range
                  THEN <<[mark |-> "fail", check |-> "EBIT margin outside reasonable range (0-100%)"]>>
                  ELSE IF typical
                  THEN <<[mark |-> "ok", check |-> "EBIT margin within typical range (5-30%)"]>>
                  ELSE <<[mark |-> "warning", check |-> "EBIT margin outside typical range (5-30%), but acceptable"]>>
    IN  IF below THEN [is_valid |-> FALSE, checks |-> check1 \o check2]
        ELSE IF out_of_range THEN [is_valid |-> FALSE, checks |-> check1 \o check2 \o check3]
        ELSE [is_valid |-> TRUE, checks |-> check1 \o check2 \o check3]

---------------------------------------------------------------------------
(* Cash calculator *)

UNRESTRICTED_CASH_TAGS == <<"CashAndCashEquivalentsAtCarryingValue">>

TOTAL_CASH_TAGS ==
    <<"CashCashEquivalentsRestrictedCashAndRestrictedCashEquivalents",
      "CashAndCashEquivalentsAtCarryingValue">>

RESTRICTED_CASH_TAGS == <<"RestrictedCashAndCashEquivalentsAtCarryingValue">>

RESTRICTED_CASH_CURRENT_TAGS == <<"RestrictedCashCurrent">>

RESTRICTED_CASH_NONCURRENT_TAGS == <<"RestrictedCashNoncurrent">>

\* _calculate_restricted_cash, once its tags are resolved
RestrictedCash(restricted_cash, restricted_current, restricted_noncurrent) ==
    IF restricted_cash # None
    THEN [value |-> OrZero(restricted_cash.val),
          method |-> "Direct RestrictedCashAndCashEquivalentsAtCarryingValue",
          source |-> restricted_cash]
    ELSE IF restricted_current # None \/ restricted_noncurrent # None
    THEN [value |-> (IF restricted_current # None THEN OrZero(restricted_current.val) ELSE 0)
                    + (IF restricted_noncurrent # None
                       THEN OrZero(restricted_noncurrent.val) ELSE 0),
          method |-> "Sum of RestrictedCashCurrent + RestrictedCashNoncurrent",
          sources |-> Entry("current", restricted_current)
                      @@ Entry("noncurrent", restricted_noncurrent)]
    ELSE None

CalculateRestrictedCash(gaap, ft) ==
    RestrictedCash(GetTagValue(gaap, RESTRICTED_CASH_TAGS, ft),
                   GetTagValue(gaap, RESTRICTED_CASH_CURRENT_TAGS, ft),
                   GetTagValue(gaap, RESTRICTED_CASH_NONCURRENT_TAGS, ft))

\* variant: the direct scenario reports the total-cash tag's value as total
Cash_ReportedTotal(unrestricted_cash_direct, total_cash, restricted_cash_result) ==
    IF unrestricted_cash_direct # None
    THEN [unrestricted_cash |-> OrZero(unrestricted_cash_direct.val),
          total_cash |-> OrZero(total_cash.val),
          restricted_cash |-> IF restricted_cash_result # None
                              THEN restricted_cash_result.value ELSE 0,
          method |-> IF restricted_cash_result # None
                     THEN "Direct unrestricted + calculated total"
                     ELSE "Direct unrestricted (no restricted cash)",
          components |-> [unrestricted |-> unrestricted_cash_direct,
                          restricted |-> restricted_cash_result]]
    ELSE IF total_cash # None /\ restricted_cash_result # None
    THEN [unrestricted_cash |-> OrZero(total_cash.val) - restricted_cash_result.value,
          total_cash |-> OrZero(total_cash.val),
          restricted_cash |-> restricted_cash_result.value,
          method |-> "Calculated: Total cash - Restricted cash",
          components |-> [total |-> total_cash, restricted |-> restricted_cash_result]]
    ELSE IF total_cash # None
    THEN [unrestricted_cash |-> OrZero(total_cash.val),
          total_cash |-> OrZero(total_cash.val),
          restricted_cash |-> 0,
          method |-> "Total cash (assuming no restricted cash)",
          components |-> [total |-> total_cash]]
    ELSE None

\* variant: the subtraction scenario is tried before the direct tag
Cash_SubtractionFirst(unrestricted_cash_direct, total_cash, restricted_cash_result) ==
    IF total_cash # None /\ restricted_cash_result # None
    THEN [unrestricted_cash |-> OrZero(total_cash.val) - restricted_cash_result.value,
          total_cash |-> OrZero(total_cash.val),
          restricted_cash |-> restricted_cash_result.value,
          method |-> "Calculated: Total cash - Restricted cash",
          components |-> [total |-> total_cash, restricted |-> restricted_cash_result]]
    ELSE IF unrestricted_cash_direct # None
    THEN [unrestricted_cash |-> OrZero(unrestricted_cash_direct.val),
          total_cash |-> OrZero(unrestricted_cash_direct.val),
          restricted_cash |-> 0,
          method |-> "Direct unrestricted (no restricted cash)",
          components |-> [unrestricted |-> unrestricted_cash_direct,
                          restricted |-> restricted_cash_result]]
    ELSE IF total_cash # None
    THEN [unrestricted_cash |-> OrZero(total_cash.val),
          total_cash |-> OrZero(total_cash.val),
          restricted_cash |-> 0,
          method |-> "Total cash (assuming no restricted cash)",
          components |-> [total |-> total_cash]]
    ELSE None

\* the three scenarios of calculate_cash, once its tags are resolved
Cash(unrestricted_cash_direct, total_cash, restricted_cash_result) ==
    IF unrestricted_cash_direct # None
    THEN [unrestricted_cash |-> OrZero(unrestricted_cash_direct.val),
          total_cash |-> OrZero(unrestricted_cash_direct.val)
                         + (IF restricted_cash_result # None
                            THEN restricted_cash_result.value ELSE 0),
          restricted_cash |-> IF restricted_cash_result # None
                              THEN restricted_cash_result.value ELSE 0,
          method |-> IF restricted_cash_result # None
                     THEN "Direct unrestricted + calculated total"
                     ELSE "Direct unrestricted (no restricted cash)",
          components |-> [unrestricted |-> unrestricted_cash_direct,
                          restricted |-> restricted_cash_result]]
    ELSE IF total_cash # None /\ restricted_cash_result # None
    THEN [unrestricted_cash |-> OrZero(total_cash.val) - restricted_cash_result.value,
          total_cash |-> OrZero(total_cash.val),
          restricted_cash |-> restricted_cash_result.value,
          method |-> "Calculated: Total cash - Restricted cash",
          components |-> [total |-> total_cash, restricted |-> restricted_cash_result]]
    ELSE IF total_cash # None
    THEN [unrestricted_cash |-> OrZero(total_cash.val),
          total_cash |-> OrZero(total_cash.val),
          restricted_cash |-> 0,
          method |-> "Total cash (assuming no restricted cash)",
          components |-> [total |-> total_cash]]
    ELSE None

CalculateCash(gaap, ft) ==
    Cash(GetTagValue(gaap, UNRESTRICTED_CASH_TAGS, ft),
         GetTagValue(gaap, TOTAL_CASH_TAGS, ft),
         CalculateRestrictedCash(gaap, ft))

---------------------------------------------------------------------------
(* Balance sheet calculator *)

ASSETS_TAGS == <<"Assets">>

ASSETS_CURRENT_TAGS == <<"AssetsCurrent">>

ASSETS_NONCURRENT_TAGS == <<"AssetsNoncurrent">>

CURRENT_LIABILITIES_TAGS == <<"LiabilitiesCurrent">>

LIABILITIES_TAGS == <<"Liabilities">>

NONCURRENT_LIABILITIES_TAGS == <<"LiabilitiesNoncurrent">>

\* variant: the sum of the two components is preferred to the direct tag
TotalAssets_SumFirst(assets, assets_current, assets_noncurrent) ==
    IF assets_current # None /\ assets_noncurrent # None
    THEN [value |-> OrZero(assets_current.val) + OrZero(assets_noncurrent.val),
          method |-> "Sum of AssetsCurrent + AssetsNoncurrent",
          sources |-> [current |-> assets_current, noncurrent |-> assets_noncurrent]]
    ELSE IF assets # None
    THEN [value |-> OrZero(assets.val), method |-> "Direct Assets tag", source |-> assets]
    ELSE None

\* calculate_assets, once its tags are resolved
TotalAssets(assets, assets_current, assets_noncurrent) ==
    IF assets # None
    THEN [value |-> OrZero(assets.val), method |-> "Direct Assets tag", source |-> assets]
    ELSE IF assets_current # None /\ assets_noncurrent # None
    THEN [value |-> OrZero(assets_current.val) + OrZero(assets_noncurrent.val),
          method |-> "Sum of AssetsCurrent + AssetsNoncurrent",
          sources |-> [current |-> assets_current, noncurrent |-> assets_noncurrent]]
    ELSE None

CalculateAssets(gaap, ft) ==
    TotalAssets(GetTagValue(gaap, ASSETS_TAGS, ft),
                GetTagValue(gaap, ASSETS_CURRENT_TAGS, ft),
                GetTagValue(gaap, ASSETS_NONCURRENT_TAGS, ft))

\* calculate_current_liabilities, once its tags are resolved
CurrentLiabilities(current_liabilities, total_liabilities, noncurrent_liabilities) ==
    IF current_liabilities # None
    THEN [value |-> OrZero(current_liabilities.val),
          method |-> "Direct LiabilitiesCurrent tag",
          source |-> current_liabilities]
    ELSE IF total_liabilities # None /\ noncurrent_liabilities # None
    THEN [value |-> OrZero(total_liabilities.val) - OrZero(noncurrent_liabilities.val),
          method |-> "Calculated: Liabilities - LiabilitiesNoncurrent",
          sources |-> [total |-> total_liabilities, noncurrent |-> noncurrent_liabilities]]
    ELSE None

CalculateCurrentLiabilities(gaap, ft) ==
    CurrentLiabilities(GetTagValue(gaap, CURRENT_LIABILITIES_TAGS, ft),
                       GetTagValue(gaap, LIABILITIES_TAGS, ft),
                       GetTagValue(gaap, NONCURRENT_LIABILITIES_TAGS, ft))

---------------------------------------------------------------------------
(* Ratio engine *)

MissingList_AllNames(names, results) == names

\* [k for k, v in {...}.items() if not v], in the order of the dict literal
MissingList(names, results) ==
    SelectSeq(names, LAMBDA k : results[k] = None)

Interpretation_Inclusive(e, capital_employed) ==
    IF e * 100 >= 25 * capital_employed
    THEN "Excellent - High quality business with strong capital efficiency"
    ELSE IF e * 100 >= 15 * capital_employed
    THEN "Good - Above average capital efficiency"
    ELSE IF e * 100 >= 10 * capital_employed
    THEN "Average - Acceptable returns on capital"
    ELSE "Below Average - May indicate capital inefficiency or competitive pressures"

\* the interpretation band of roce = (ebit / capital_employed) * 100, with
\* capital_employed > 0: the thresholds are compared exactly
Interpretation(e, capital_employed) ==
    IF e * 100 > 25 * capital_employed
    THEN "Excellent - High quality business with strong capital efficiency"
    ELSE IF e * 100 > 15 * capital_employed
    THEN "Good - Above average capital efficiency"
    ELSE IF e * 100 > 10 * capital_employed
    THEN "Average - Acceptable returns on capital"
    ELSE "Below Average - May indicate capital inefficiency or competitive pressures"

\* roce as the exact fraction numerator / denominator
Percent(e, capital_employed) == [numerator |-> e * 100, denominator |-> capital_employed]

ZeroDivisionError == [raised |-> "ZeroDivisionError"]

CalculateRoce_NoGuard(ebit_res, assets_res, cl_res) ==
    IF ebit_res = None \/ assets_res = None \/ cl_res = None
    THEN [value |-> None, status |-> "missing_components",
          missing |-> MissingList(<<"ebit", "assets", "current_liabilities">>,
                                  [ebit |-> ebit_res, assets |-> assets_res,
                                   current_liabilities |-> cl_res])]
    ELSE LET capital_employed == assets_res.value - cl_res.value
         IN  IF capital_employed < 0
             THEN [value |-> None, status |-> "invalid_capital_employed",
                   capital_employed |-> capital_employed,
                   note |-> "Capital employed is non-positive"]
             ELSE IF capital_employed = 0
             THEN ZeroDivisionError
             ELSE [value |-> Some(Percent(ebit_res.value, capital_employed)),
                   status |-> "success"]

CalculateRoce(ebit_res, assets_res, cl_res) ==
    IF ebit_res = None \/ assets_res = None \/ cl_res = None
    THEN [value |-> None, status |-> "missing_components",
          missing |-> MissingList(<<"ebit", "assets", "current_liabilities">>,
                                  [ebit |-> ebit_res, assets |-> assets_res,
                                   current_liabilities |-> cl_res])]
    ELSE LET capital_employed == assets_res.value - cl_res.value
         IN  IF capital_employed <= 0
             THEN [value |-> None, status |-> "invalid_capital_employed",
                   capital_employed |-> capital_employed,
                   note |-> "Capital employed is non-positive"]
             ELSE [value |-> Some(Percent(ebit_res.value, capital_employed)),
                   components |-> [ebit |-> ebit_res.value,
                                   total_assets |-> assets_res.value,
                                   current_liabilities |-> cl_res.value,
                                   capital_employed |-> capital_employed],
                   interpretation |-> Interpretation(ebit_res.value, capital_employed),
                   status |-> "success"]

\* variant: net debt is taken against total cash, restricted cash included
CalculateEarningsYieldComponents_TotalCash(ebit_res, debt_res, cash_res) ==
    IF ebit_res = None \/ debt_res = None \/ cash_res = None
    THEN [status |-> "missing_components",
          missing |-> MissingList(<<"ebit", "total_debt", "cash">>,
                                  [ebit |-> ebit_res, total_debt |-> debt_res,
                                   cash |-> cash_res])]
    ELSE [status |-> "success",
          ebit |-> ebit_res.value,
          total_debt |-> debt_res.value,
          unrestricted_cash |-> cash_res.unrestricted_cash,
          net_debt |-> debt_res.value - cash_res.total_cash,
          formula |-> "Earnings Yield = EBIT / (Market Cap + Net Debt)",
          formula_expanded |->
              "Earnings Yield = EBIT / (Market Cap + Total Debt - Unrestricted Cash)",
          note |-> "Market Cap must be provided from external market data source",
          ready_for_calculation |-> TRUE]

CalculateEarningsYieldComponents(ebit_res, debt_res, cash_res) ==
    IF ebit_res = None \/ debt_res = None \/ cash_res = None
    THEN [status |-> "missing_components",
          missing |-> MissingList(<<"ebit", "total_debt", "cash">>,
                                  [ebit |-> ebit_res, total_debt |-> debt_res,
                                   cash |-> cash_res])]
    ELSE [status |-> "success",
          ebit |-> ebit_res.value,
          total_debt |-> debt_res.value,
          unrestricted_cash |-> cash_res.unrestricted_cash,
          net_debt |-> debt_res.value - cash_res.unrestricted_cash,
          formula |-> "Earnings Yield = EBIT / (Market Cap + Net Debt)",
          formula_expanded |->
              "Earnings Yield = EBIT / (Market Cap + Total Debt - Unrestricted Cash)",
          note |-> "Market Cap must be provided from external market data source",
          ready_for_calculation |-> TRUE]

---------------------------------------------------------------------------
(* Period identifier and aligner *)

\* variant: the filing seen last replaces the period's entry, whatever its date
RECURSIVE GroupByPeriodEnd_LastWins(_, _)
GroupByPeriodEnd_LastWins(filings, periods) ==
    IF filings = <<>> THEN periods
    ELSE LET filing == Head(filings)
         IN  GroupByPeriodEnd_LastWins(Tail(filings),
                 (filing.end :> [filed |-> filing.filed, form |-> filing.form]) @@ periods)

\* for filing in annual_filings: keep, per period end, the greatest filed date
RECURSIVE GroupByPeriodEnd(_, _)
GroupByPeriodEnd(filings, periods) ==
    IF filings = <<>> THEN periods
    ELSE LET filing == Head(filings)
         IN  IF filing.end \notin DOMAIN periods \/ filing.filed > periods[filing.end].filed
             THEN GroupByPeriodEnd(Tail(filings),
                      (filing.end :> [filed |-> filing.filed, form |-> filing.form]) @@ periods)
             ELSE GroupByPeriodEnd(Tail(filings), periods)

IdentifyFiscalPeriods(gaap, ft) ==
    IF "Assets" \notin DOMAIN gaap THEN None
    ELSE GroupByPeriodEnd(FormValues(gaap["Assets"], ft), None)

\* variant: the first matching observation in list order
MostRecentlyFiled_FirstListed(values) == values[1]

\* period_values.sort(key=filed, reverse=True); period_values[0] (stable sort)
MostRecentlyFiled(values) ==
    LET i == CHOOSE k \in DOMAIN values :
                 /\ \A j \in DOMAIN values : values[j].filed <= values[k].filed
                 /\ \A j \in 1..(k - 1) : values[j].filed # values[k].filed
    IN  values[i]

FilterGaapToPeriod_FormOnly(gaap, period_end, ft) ==
    LET PeriodValues(t) == SelectSeq(gaap[t], LAMBDA v : v.form = ft)
        tags == {t \in DOMAIN gaap : PeriodValues(t) # <<>>}
    IN  [t \in tags |-> PeriodValues(t)]

FilterGaapToPeriod(gaap, period_end, ft) ==
    LET PeriodValues(t) == SelectSeq(gaap[t], LAMBDA v : v.end = period_end /\ v.form = ft)
        tags == {t \in DOMAIN gaap : PeriodValues(t) # <<>>}
    IN  [t \in tags |-> <<MostRecentlyFiled(PeriodValues(t))>>]

\* the dict _extract_period_metrics returns, once the five metrics are
\* calculated: only the metrics that were found are listed
PeriodMetrics(period_end, filing_info, ft, ebit_res, debt_res, cash_res, assets_res, cl_res) ==
    IF debt_res = TypeError THEN TypeError
    ELSE [fiscal_year |-> Year(period_end),
          fiscal_year_end |-> period_end,
          filing_date |-> filing_info.filed,
          form |-> ft,
          metrics |-> Entry("ebit", ebit_res) @@ Entry("total_debt", debt_res)
                      @@ Entry("cash", cash_res) @@ Entry("assets", assets_res)
                      @@ Entry("current_liabilities", cl_res),
          calculated_ratios |->
              [roce |-> CalculateRoce(ebit_res, assets_res, cl_res),
               earnings_yield_components |->
                   CalculateEarningsYieldComponents(ebit_res, debt_res, cash_res)]]

\* the five calculators on the period's view of the facts
CalculatePeriodMetrics(period_gaap_data, period_end, filing_info, ft) ==
    PeriodMetrics(period_end, filing_info, ft,
                  CalculateEbit(period_gaap_data, ft),
                  CalculateTotalDebt(period_gaap_data, ft),
                  CalculateCash(period_gaap_data, ft),
                  CalculateAssets(period_gaap_data, ft),
                  CalculateCurrentLiabilities(period_gaap_data, ft))

ExtractPeriodMetrics(gaap, period_end, filing_info, ft) ==
    CalculatePeriodMetrics(FilterGaapToPeriod(gaap, period_end, ft),
                           period_end, filing_info, ft)

\* the keys of the periods dict in insertion order: the order in which the
\* period ends first appear among the filings
RECURSIVE InsertionOrder(_)
InsertionOrder(filings) ==
    IF filings = <<>> THEN <<>>
    ELSE LET rest == InsertionOrder(SelectSeq(Tail(filings),
                                              LAMBDA v : v.end # Head(filings).end))
         IN  <<Head(filings).end>> \o rest

\* what a stable sort does: the element of index i comes before the element of
\* index j iff its key is smaller, or the keys are equal and i < j
StableSortAscending(list, keys) ==
    LET Rank(i) == 1 + Cardinality({j \in DOMAIN list :
                                       keys[j] < keys[i] \/ (keys[j] = keys[i] /\ j < i)})
    IN  [r \in DOMAIN list |-> list[CHOOSE i \in DOMAIN list : Rank(i) = r]]

\* the same with reverse=True: greater keys first, equal keys in list order
StableSortDescending(list, keys) ==
    LET Rank(i) == 1 + Cardinality({j \in DOMAIN list :
                                       keys[j] > keys[i] \/ (keys[j] = keys[i] /\ j < i)})
    IN  [r \in DOMAIN list |-> list[CHOOSE i \in DOMAIN list : Rank(i) = r]]

\* variant: the list is left in the order of the periods dict
SortPeriodData_DictOrder(period_data) == period_data

\* period_data.sort(key=lambda x: x['fiscal_year_end'], reverse=True)
SortPeriodData(period_data) ==
    StableSortDescending(period_data,
                         [i \in DOMAIN period_data |-> period_data[i].fiscal_year_end])

\* for period_end, filing_info in periods.items(): one entry per identified
\* period, in the order of the periods dict (ends): the record returned is a
\* non-empty dict, so it is always appended; an entry is TypeError when its
\* extraction raises
PeriodDataOf(periods, ends, gaap, ft) ==
    [i \in DOMAIN ends |-> ExtractPeriodMetrics(gaap, ends[i], periods[ends[i]], ft)]

\* period_data before the sort
PeriodData(gaap, ft) ==
    PeriodDataOf(IdentifyFiscalPeriods(gaap, ft),
                 IF "Assets" \notin DOMAIN gaap THEN <<>>
                 ELSE InsertionOrder(FormValues(gaap["Assets"], ft)),
                 gaap, ft)

\* extract_all_periods raises when the extraction of one of its periods does
AnyRaises(period_data) == \E i \in DOMAIN period_data : period_data[i] = TypeError

ExtractAllPeriodsRaises(gaap, ft) == AnyRaises(PeriodData(gaap, ft))

\* the list extract_all_periods returns (when it does not raise):
\* period_data[0]['is_most_recent'] = True, the others False
MarkMostRecent(sorted) ==
    [i \in DOMAIN sorted |-> ("is_most_recent" :> (i = 1)) @@ sorted[i]]

ExtractAllPeriods(gaap, ft) == MarkMostRecent(SortPeriodData(PeriodData(gaap, ft)))

---------------------------------------------------------------------------
(* Quarterly de-cumulation *)

\* variant: one group for the whole list, whatever the year of the period end
FiscalYearGroup_OneGroup(periods, fy) == [i \in DOMAIN periods |-> i]

\* fiscal_years[fy_key]: the list indexes of the periods whose
\* fiscal_year_end[:4] is fy, in list order
FiscalYearGroup(periods, fy) ==
    SelectSeq([i \in DOMAIN periods |-> i],
              LAMBDA i : Year(periods[i].fiscal_year_end) = fy)

SortedQuarters_ListOrder(periods, fy) == FiscalYearGroup(periods, fy)

\* sorted(quarters, key=lambda x: x['fiscal_year_end'])
SortedQuarters(periods, fy) ==
    LET quarters == FiscalYearGroup(periods, fy)
    IN  StableSortAscending(quarters,
            [k \in DOMAIN quarters |-> periods[quarters[k]].fiscal_year_end])

\* quarter.get('metrics', {}).get('ebit')
EbitOf(period) == IF "ebit" \in DOMAIN period.metrics THEN period.metrics.ebit ELSE None

DeCumulateEbit_NoPreviousCheck(ebit_data, i, prev_ebit) ==
    IF i = 1
    THEN [ytd_value |-> ebit_data.value, quarterly_value |-> Some(ebit_data.value),
          is_q1 |-> TRUE] @@ ebit_data
    ELSE [ytd_value |-> ebit_data.value,
          quarterly_value |-> Some(ebit_data.value
                                   - (IF prev_ebit # None THEN prev_ebit.value ELSE 0)),
          is_calculated |-> TRUE] @@ ebit_data

\* variant: the isolated figure replaces the reported value of the EBIT result
DeCumulateEbit_OverwriteValue(ebit_data, i, prev_ebit) ==
    IF i = 1 \/ prev_ebit = None
    THEN [ytd_value |-> ebit_data.value, quarterly_value |-> Some(ebit_data.value)]
         @@ ebit_data
    ELSE [ytd_value |-> ebit_data.value,
          quarterly_value |-> Some(ebit_data.value - prev_ebit.value),
          value |-> ebit_data.value - prev_ebit.value,
          is_calculated |-> TRUE] @@ ebit_data

\* the fields added to the EBIT result of the i-th quarter of its sorted
\* fiscal-year group (i = 1 is the code's i == 0); prev_ebit is the EBIT result
\* of the quarter before it.  An EBIT result always carries a number as
\* 'value', so the test ebit_data.get('value') is None never succeeds.
DeCumulateEbit(ebit_data, i, prev_ebit) ==
    IF i = 1
    THEN [ytd_value |-> ebit_data.value,
          quarterly_value |-> Some(ebit_data.value),
          is_q1 |-> TRUE,
          calculation_note |-> "Q1 - YTD equals quarterly (no de-cumulation needed)"]
         @@ ebit_data
    ELSE IF prev_ebit # None
    THEN [ytd_value |-> ebit_data.value,
          quarterly_value |-> Some(ebit_data.value - prev_ebit.value),
          is_calculated |-> TRUE,
          calculation_note |-> "De-cumulated from YTD (current YTD - previous YTD)",
          previous_quarter_ytd |-> prev_ebit.value]
         @@ ebit_data
    ELSE [ytd_value |-> ebit_data.value,
          quarterly_value |-> None,
          calculation_failed |-> TRUE,
          calculation_note |-> "Cannot de-cumulate - previous quarter missing EBIT"]
         @@ ebit_data

\* the quarter at list index p, the i-th of its sorted fiscal-year group
QuarterDelta(periods, p, sorted_quarters, i) ==
    IF EbitOf(periods[p]) = None THEN periods[p]
    ELSE [periods[p] EXCEPT
             !.metrics = ("ebit" :> DeCumulateEbit(
                                        EbitOf(periods[p]), i,
                                        IF i > 1 THEN EbitOf(periods[sorted_quarters[i - 1]])
                                        ELSE None)) @@ @]

\* for i, quarter in enumerate(sorted_quarters)
QuarterInGroup(periods, p, sorted_quarters) ==
    QuarterDelta(periods, p, sorted_quarters,
                 CHOOSE k \in DOMAIN sorted_quarters : sorted_quarters[k] = p)

\* _calculate_quarterly_deltas: the list after the in-place pass
CalculateQuarterlyDeltas(periods) ==
    [p \in DOMAIN periods |->
        QuarterInGroup(periods, p, SortedQuarters(periods, Year(periods[p].fiscal_year_end)))]

---------------------------------------------------------------------------
(* Period orchestrator *)

\* d.get(k) of a key whose value, when present, is not None
Get(d, k) == IF k \in DOMAIN d THEN Some(d[k]) ELSE None

\* d.get(k) of a key whose value may itself be None
GetRaw(d, k) == IF k \in DOMAIN d THEN d[k] ELSE None

\* _create_calculation_log, without the timestamp, company name and cik
CreateCalculationLog(period_data) ==
    [fiscal_year_end |-> period_data.fiscal_year_end,
     filing_date |-> period_data.filing_date,
     metrics_extracted |->
         [metric_name \in DOMAIN period_data.metrics |->
             LET metric_data == period_data.metrics[metric_name]
             IN  [value |-> Get(metric_data, "value"),
                  method |-> Get(metric_data, "method"),
                  tier |-> IF metric_name = "ebit" THEN Get(metric_data, "tier") ELSE None,
                  validation |-> IF metric_name = "ebit"
                                 THEN GetRaw(metric_data, "validation") ELSE None,
                  warnings |-> IF metric_name = "total_debt"
                               THEN GetRaw(metric_data, "warnings") ELSE None]],
     calculations |-> [roce |-> period_data.calculated_ratios.roce,
                       earnings_yield_components |->
                           period_data.calculated_ratios.earnings_yield_components]]

WithCalculationLogs(periods) ==
    [i \in DOMAIN periods |->
        ("calculation_log" :> CreateCalculationLog(periods[i])) @@ periods[i]]

\* parse_company_data, without the metadata's names and clock: the dict it
\* returns, once the periods are extracted
ParseResult(annual, quarterly, with_quarterly) ==
    [metadata |-> [parser_version |-> "2.0",
                   total_annual_periods |-> Len(annual),
                   total_quarterly_periods |-> Len(quarterly)],
     annual_periods |-> WithCalculationLogs(annual),
     quarterly_periods |->
         WithCalculationLogs(IF with_quarterly
                             THEN CalculateQuarterlyDeltas(quarterly)
                             ELSE quarterly)]

ParseCompanyData(gaap, with_quarterly) ==
    IF \/ ExtractAllPeriodsRaises(gaap, FORM_10K)
       \/ (with_quarterly /\ ExtractAllPeriodsRaises(gaap, FORM_10Q))
    THEN TypeError
    ELSE ParseResult(ExtractAllPeriods(gaap, FORM_10K),
                     IF with_quarterly THEN ExtractAllPeriods(gaap, FORM_10Q) ELSE <<>>,
                     with_quarterly)

---------------------------------------------------------------------------
(* Inputs *)

\* the elements of a set of numbers as an ascending sequence
SetToSeq(S) ==
    [r \in 1..Cardinality(S) |-> CHOOSE e \in S : Cardinality({x \in S : x < e}) = r - 1]

Observation(val, end, filed, form) == [val |-> val, end |-> end, filed |-> filed, form |-> form]

\* a filing date after the period end: one month later
FiledAfter(end) == end + 100

\* the i-th quarter end: three interim period ends per calendar year
QuarterEnd(i) == (2023 + (i - 1) \div 3) * 10000 + (3 * ((i - 1) % 3) + 3) * 100 + 30

NumQuarterEnds == 4

QuarterEnds == {QuarterEnd(i) : i \in 1..NumQuarterEnds}

\* year-to-date EBIT figures as the interim filings report them
YtdValues == {20, 55, 85}

\* a company whose 10-Q filings report Assets at the period ends of ends and
\* OperatingIncomeLoss with the year-to-date values of ytd (None: not reported)
QuarterlyFacts(ends, ytd) ==
    LET reported == {e \in ends : ytd[e] # None}
    IN  ("Assets" :> [i \in 1..Cardinality(ends) |->
                         Observation(Some(1000), SetToSeq(ends)[i],
                                     FiledAfter(SetToSeq(ends)[i]), FORM_10Q)])
        @@ (IF reported = {} THEN <<>>
            ELSE "OperatingIncomeLoss" :>
                     [i \in 1..Cardinality(reported) |->
                         Observation(ytd[SetToSeq(reported)[i]], SetToSeq(reported)[i],
                                     FiledAfter(SetToSeq(reported)[i]), FORM_10Q)])

\* the variables of the operations a specification does not run
ParseIdle ==
    /\ facts = None
    /\ include_quarterly = FALSE
    /\ parsed = None
    /\ quarterly_periods = <<>>
    /\ identified_periods = None
    /\ requested_end = 0

CalcIdle ==
    /\ gaap_data = None
    /\ form_type = FORM_10K
    /\ tag_list = <<>>
    /\ tag_value = None
    /\ debt_result = None

RoceIdle ==
    /\ ebit_result = None
    /\ assets_result = None
    /\ current_liabilities_result = None
    /\ roce_result = None
    /\ cash_result = None
    /\ earnings_yield_components = None

ValidateIdle ==
    /\ ebit = 0
    /\ net_income = None
    /\ revenues = None
    /\ validation = None

---------------------------------------------------------------------------
(* Specification of the de-cumulation pass: parse_company_data has extracted
   the interim periods of a company and hands them to
   _calculate_quarterly_deltas *)

InitDeltas ==
    /\ pc = "extracted"
    /\ \E ends \in SUBSET QuarterEnds :
           \E ytd \in [ends -> {None} \cup {Some(v) : v \in YtdValues}] :
               facts = QuarterlyFacts(ends, ytd)
    /\ quarterly_periods = ExtractAllPeriods(facts, FORM_10Q)
    /\ include_quarterly = TRUE
    /\ parsed = None
    /\ identified_periods = None /\ requested_end = 0
    /\ CalcIdle /\ RoceIdle /\ ValidateIdle

CalculateQuarterlyDeltasStep ==
    /\ pc = "extracted"
    /\ quarterly_periods' = CalculateQuarterlyDeltas(quarterly_periods)
    /\ pc' = "deltas"
    /\ UNCHANGED <<facts, include_quarterly, parsed, identified_periods, requested_end,
                   calcVars, roceVars, validateVars>>

NextDeltas == CalculateQuarterlyDeltasStep

SpecDeltas == InitDeltas /\ [][NextDeltas]_vars

\* the list as extract_all_periods returned it, before the pass
BeforeDeltas == ExtractAllPeriods(facts, FORM_10Q)

\* the list indexes of the periods of p's calendar year that end before p
EarlierInYear(periods, p) ==
    {q \in DOMAIN periods :
        /\ Year(periods[q].fiscal_year_end) = Year(periods[p].fiscal_year_end)
        /\ periods[q].fiscal_year_end < periods[p].fiscal_year_end}

\* the latest of them
PreviousInYear(periods, p) ==
    CHOOSE q \in EarlierInYear(periods, p) :
        \A r \in EarlierInYear(periods, p) :
            periods[r].fiscal_year_end <= periods[q].fiscal_year_end

HasEbit(period) == "ebit" \in DOMAIN period.metrics

\* C1: in every fiscal-year group taken in ascending period-end order, the
\* first period's EBIT gets quarterly_value = ytd_value = its reported value,
\* and a later period whose own EBIT and the EBIT of the period before it are
\* both present gets ytd_value = its reported value and quarterly_value =
\* reported(k) - reported(k-1).
C1_DeCumulation ==
    pc = "deltas" =>
        LET before == BeforeDeltas
        IN  \A p \in DOMAIN before :
                HasEbit(before[p]) =>
                    LET reported == before[p].metrics.ebit.value
                        after == quarterly_periods[p].metrics.ebit
                    IN  IF EarlierInYear(before, p) = {}
                        THEN /\ after.ytd_value = reported
                             /\ after.quarterly_value = Some(reported)
                        ELSE LET prev == before[PreviousInYear(before, p)]
                             IN  HasEbit(prev) =>
                                     /\ after.ytd_value = reported
                                     /\ after.quarterly_value
                                            = Some(reported - prev.metrics.ebit.value)

\* the quarterly_value of the period that ends at end, as a set: empty when the
\* list has no such period or the period has no EBIT
QuarterlyValueAt(end) ==
    {quarterly_periods[p].metrics.ebit.quarterly_value :
        p \in {q \in DOMAIN quarterly_periods :
                  /\ quarterly_periods[q].fiscal_year_end = end
                  /\ HasEbit(quarterly_periods[q])}}

\* the reported EBIT of the period that ends at end, as a set
ReportedAt(periods, end) ==
    {periods[p].metrics.ebit.value :
        p \in {q \in DOMAIN periods :
                  periods[q].fiscal_year_end = end /\ HasEbit(periods[q])}}

\* C1 witness: year-to-date 20, 55, 85 in the three quarters of one year have
\* been de-cumulated to 20, 35, 30
C1_Witness ==
    /\ pc = "deltas"
    /\ QuarterlyValueAt(QuarterEnd(1)) = {Some(20)}
    /\ QuarterlyValueAt(QuarterEnd(2)) = {Some(35)}
    /\ QuarterlyValueAt(QuarterEnd(3)) = {Some(30)}
    /\ LET before == BeforeDeltas
       IN  /\ ReportedAt(before, QuarterEnd(1)) = {20}
           /\ ReportedAt(before, QuarterEnd(2)) = {55}
           /\ ReportedAt(before, QuarterEnd(3)) = {85}

\* C2: when the period before quarter k in its fiscal-year group has no EBIT,
\* the isolated value of quarter k is absent: its EBIT result, if it has one,
\* carries quarterly_value None, calculation_failed and the reason; and every
\* isolated value that is a number was computed from operands that are present
\* (the quarter's own figure for a first quarter, else own minus previous).
C2_MissingPrevious ==
    pc = "deltas" =>
        LET before == BeforeDeltas
        IN  \A p \in DOMAIN before :
                LET first == EarlierInYear(before, p) = {}
                    prev_present == ~first /\ HasEbit(before[PreviousInYear(before, p)])
                    now == quarterly_periods[p]
                IN  /\ HasEbit(now) = HasEbit(before[p])
                    /\ (HasEbit(before[p]) /\ ~first /\ ~prev_present) =>
                           /\ now.metrics.ebit.quarterly_value = None
                           /\ "calculation_failed" \in DOMAIN now.metrics.ebit
                           /\ now.metrics.ebit.calculation_failed = TRUE
                           /\ now.metrics.ebit.calculation_note
                                  = "Cannot de-cumulate - previous quarter missing EBIT"
                    /\ (HasEbit(now) /\ now.metrics.ebit.quarterly_value # None) =>
                           /\ first \/ prev_present
                           /\ now.metrics.ebit.quarterly_value
                                  = Some(before[p].metrics.ebit.value
                                         - (IF first THEN 0
                                            ELSE before[PreviousInYear(before, p)]
                                                     .metrics.ebit.value))

\* C2 witness: a quarter with EBIT whose predecessor in the year has none, and
\* whose isolated value has been marked unavailable
C2_Witness ==
    /\ pc = "deltas"
    /\ LET before == BeforeDeltas
       IN  \E p \in DOMAIN before :
               /\ HasEbit(before[p])
               /\ EarlierInYear(before, p) # {}
               /\ ~HasEbit(before[PreviousInYear(before, p)])
               /\ quarterly_periods[p].metrics.ebit.quarterly_value = None
               /\ quarterly_periods[p].metrics.ebit.calculation_failed

\* the period ends of the records that the pass marked as quarter 1
FirstQuarterEnds ==
    {quarterly_periods[p].fiscal_year_end :
        p \in {q \in DOMAIN quarterly_periods :
                  /\ HasEbit(quarterly_periods[q])
                  /\ "is_q1" \in DOMAIN quarterly_periods[q].metrics.ebit}}

\* the period ends of the records whose isolated value is a difference
DeCumulatedEnds ==
    {quarterly_periods[p].fiscal_year_end :
        p \in {q \in DOMAIN quarterly_periods :
                  /\ HasEbit(quarterly_periods[q])
                  /\ "is_calculated" \in DOMAIN quarterly_periods[q].metrics.ebit}}

\* C28: the de-cumulation groups are the sets of records whose period ends
\* have the same year.  A record with EBIT is treated as quarter 1 (is_q1,
\* isolated value = year-to-date value = reported value) exactly when no record
\* of its year ends before it; every other record with EBIT is de-cumulated
\* against the record that ends latest before it within its year: with that
\* record's EBIT as previous_quarter_ytd when it has one, and marked
\* calculation_failed when it has none.  So the subtrahend of every difference
\* is the figure of a record of the same year.
C28_YearGroups ==
    pc = "deltas" =>
        LET before == BeforeDeltas
        IN  \A p \in DOMAIN before :
                HasEbit(before[p]) =>
                    LET reported == before[p].metrics.ebit.value
                        after == quarterly_periods[p].metrics.ebit
                    IN  IF EarlierInYear(before, p) = {}
                        THEN /\ "is_q1" \in DOMAIN after
                             /\ "is_calculated" \notin DOMAIN after
                             /\ "previous_quarter_ytd" \notin DOMAIN after
                             /\ after.ytd_value = reported
                             /\ after.quarterly_value = Some(reported)
                        ELSE LET prev == before[PreviousInYear(before, p)]
                             IN  /\ "is_q1" \notin DOMAIN after
                                 /\ Year(prev.fiscal_year_end)
                                        = Year(before[p].fiscal_year_end)
                                 /\ IF HasEbit(prev)
                                    THEN /\ "is_calculated" \in DOMAIN after
                                         /\ after.previous_quarter_ytd
                                                = prev.metrics.ebit.value
                                         /\ after.quarterly_value
                                                = Some(reported - prev.metrics.ebit.value)
                                    ELSE /\ "calculation_failed" \in DOMAIN after
                                         /\ after.quarterly_value = None

\* C28 witness: all four period ends have EBIT; the first quarter of 2023 and
\* the first quarter of 2024 are both marked quarter 1, the second and third
\* quarters of 2023 are differences, and the 2024 figure 20 (less than the 85
\* reported for the last quarter of 2023) is kept as reported
C28_Witness ==
    /\ pc = "deltas"
    /\ FirstQuarterEnds = {QuarterEnd(1), QuarterEnd(4)}
    /\ DeCumulatedEnds = {QuarterEnd(2), QuarterEnd(3)}
    /\ ReportedAt(BeforeDeltas, QuarterEnd(3)) = {85}
    /\ QuarterlyValueAt(QuarterEnd(4)) = {Some(20)}

---------------------------------------------------------------------------
(* Specification of the debt calculator: calculate_total_debt on the view of
   one period, in which every tag has one observation of the period *)

\* the period of the view handed to a calculator
ViewEnd == 2023 * 10000 + 1231

MaxAmount == 2

Amounts == 0..MaxAmount

DebtTags ==
    Range(LT_DEBT_NONCURRENT_TAGS) \cup Range(LT_DEBT_INCLUDING_CURRENT_TAGS)
    \cup Range(LT_DEBT_CURRENT_TAGS) \cup Range(ST_BORROWINGS_TAGS)
    \cup Range(ST_BORROWINGS_COMPONENT_TAGS)

MaxDebtTags == 3

\* the views over the tags of S whose values (None: a null 'val') are vals
PeriodView(S, vals, ft) ==
    [t \in S |-> <<Observation(vals[t], ViewEnd, FiledAfter(ViewEnd), ft)>>]

InitDebt ==
    /\ pc = "debt"
    /\ form_type = FORM_10K
    /\ \E S \in {T \in SUBSET DebtTags : Cardinality(T) <= MaxDebtTags} :
           \E vals \in [S -> {None} \cup {Some(v) : v \in Amounts}] :
               gaap_data = PeriodView(S, vals, FORM_10K)
    /\ debt_result = None
    /\ tag_list = <<>>
    /\ tag_value = None
    /\ ParseIdle /\ RoceIdle /\ ValidateIdle

CalculateTotalDebtStep ==
    /\ pc = "debt"
    /\ debt_result' = CalculateTotalDebt(gaap_data, form_type)
    /\ pc' = "debt_done"
    /\ UNCHANGED <<gaap_data, form_type, tag_list, tag_value, parseVars, roceVars,
                   validateVars>>

NextDebt == CalculateTotalDebtStep

SpecDebt == InitDebt /\ [][NextDebt]_vars

\* the tags of a candidate list that the view holds
Present(tags) == {t \in Range(tags) : t \in DOMAIN gaap_data}

\* the view without the tags of drop
Without(drop) == [t \in DOMAIN gaap_data \ drop |-> gaap_data[t]]

\* the total of a result, 0 when there is none
TotalOf(result) == IF result = None THEN 0 ELSE result.value

\* C3: with no including-current-maturities tag and two or more current-portion
\* tags present that all carry the same number, the total is the same as with
\* any single one of them present, it exceeds the total without them by that
\* number, and the counted-once warning is attached.
C3_DuplicatesCountedOnce ==
    (/\ pc = "debt_done"
     /\ Present(LT_DEBT_INCLUDING_CURRENT_TAGS) = {}
     /\ Cardinality(Present(LT_DEBT_CURRENT_TAGS)) >= 2
     /\ \E v \in Amounts :
            \A t \in Present(LT_DEBT_CURRENT_TAGS) : gaap_data[t][1].val = Some(v))
    => LET current == Present(LT_DEBT_CURRENT_TAGS)
           v == gaap_data[CHOOSE t \in current : TRUE][1].val[1]
       IN  /\ debt_result # None /\ debt_result # TypeError
           /\ \A kept \in current :
                  debt_result.value
                      = CalculateTotalDebt(Without(current \ {kept}), form_type).value
           /\ debt_result.value
                  = TotalOf(CalculateTotalDebt(Without(current), form_type)) + v
           /\ \E i \in DOMAIN debt_result.warnings :
                  /\ debt_result.warnings[i].warning
                         = "tags for current portion with same value - counted once only"
                  /\ debt_result.warnings[i].count = Cardinality(current)
                  /\ debt_result.warnings[i].value = Some(v)

\* C3 witness: two current-portion tags both of 2 beside a non-current tag
\* of 1, and the total returned is 3
C3_Witness ==
    /\ pc = "debt_done"
    /\ Present(LT_DEBT_INCLUDING_CURRENT_TAGS) = {}
    /\ Present(LT_DEBT_NONCURRENT_TAGS) # {}
    /\ Cardinality(Present(LT_DEBT_CURRENT_TAGS)) = 2
    /\ \A t \in Present(LT_DEBT_CURRENT_TAGS) : gaap_data[t][1].val = Some(2)
    /\ \A t \in Present(LT_DEBT_NONCURRENT_TAGS) : gaap_data[t][1].val = Some(1)
    /\ debt_result # None /\ debt_result # TypeError
    /\ debt_result.value = 3

\* the first tag of a candidate list that the view holds
FirstPresent(tags) ==
    tags[CHOOSE i \in DOMAIN tags :
             /\ tags[i] \in DOMAIN gaap_data
             /\ \A j \in 1..(i - 1) : tags[j] \notin DOMAIN gaap_data]

\* the value of a tag of the view, a missing tag or a null value counting 0
AmountOf(t) == IF t \in DOMAIN gaap_data THEN OrZero(gaap_data[t][1].val) ELSE 0

\* short-term borrowings: the direct tag, else the sum of its components
ShortTermAmount ==
    IF "ShortTermBorrowings" \in DOMAIN gaap_data THEN AmountOf("ShortTermBorrowings")
    ELSE AmountOf("ShortTermBankLoansAndNotesPayable") + AmountOf("CommercialPaper")

\* C4: whenever an including-current-maturities tag resolves, the result has
\* the 2-component method, no current-portion (nor non-current) component, and
\* its total is the value of the resolved including-current tag (a null value
\* counting 0) plus the short-term borrowings, whatever other tags are present.
C4_IncludingCurrentAlone ==
    (pc = "debt_done" /\ Present(LT_DEBT_INCLUDING_CURRENT_TAGS) # {})
    => /\ debt_result # None /\ debt_result # TypeError
       /\ debt_result.method = "2-component (LT including current + ST borrowings)"
       /\ "lt_debt_current" \notin DOMAIN debt_result.components
       /\ "lt_debt_noncurrent" \notin DOMAIN debt_result.components
       /\ DOMAIN debt_result.components
              \subseteq {"lt_debt_including_current", "st_borrowings"}
       /\ debt_result.components.lt_debt_including_current.tag
              = FirstPresent(LT_DEBT_INCLUDING_CURRENT_TAGS)
       /\ debt_result.value
              = AmountOf(FirstPresent(LT_DEBT_INCLUDING_CURRENT_TAGS)) + ShortTermAmount

\* C4 witness: an including-current tag beside a current-portion tag and
\* short-term borrowings, all with positive numbers
C4_Witness ==
    /\ pc = "debt_done"
    /\ Present(LT_DEBT_INCLUDING_CURRENT_TAGS) # {}
    /\ Present(LT_DEBT_CURRENT_TAGS) # {}
    /\ "ShortTermBorrowings" \in DOMAIN gaap_data
    /\ \A t \in DOMAIN gaap_data : Truthy(gaap_data[t][1].val)
    /\ debt_result.value
           = AmountOf(FirstPresent(LT_DEBT_INCLUDING_CURRENT_TAGS))
             + AmountOf("ShortTermBorrowings")

\* the components a method string names
NamedComponents(method) ==
    IF method = "2-component (LT including current + ST borrowings)"
    THEN {"lt_debt_including_current", "st_borrowings"}
    ELSE IF method = "3-component (LT non-current + LT current + ST borrowings)"
    THEN {"lt_debt_noncurrent", "lt_debt_current", "st_borrowings"}
    ELSE IF method = "2-component (LT non-current + LT current, no ST borrowings)"
    THEN {"lt_debt_noncurrent", "lt_debt_current"}
    ELSE IF method = "2-component (LT non-current + ST borrowings, no LT current)"
    THEN {"lt_debt_noncurrent", "st_borrowings"}
    ELSE CHOOSE S \in SUBSET {"lt_debt_including_current", "lt_debt_noncurrent",
                              "lt_debt_current", "st_borrowings"} :
             method = "Partial (" \o Join(ComponentKeys([k \in S |-> TRUE])) \o ")"

\* C18: whenever calculate_total_debt returns a result, its method string
\* names a component if and only if that component was resolved and added to
\* the total (is one of the result's components)
C18_MethodNamesComponents ==
    (pc = "debt_done" /\ debt_result # None /\ debt_result # TypeError)
    => NamedComponents(debt_result.method) = DOMAIN debt_result.components

\* the value of the first tag of a candidate list that the view holds, 0 when
\* it holds none
FirstAmount(tags) == IF Present(tags) = {} THEN 0 ELSE AmountOf(FirstPresent(tags))

\* C25: when a long-term debt tag (including-current, non-current or current
\* portion) is present and no short-term borrowings tag or component tag is,
\* calculate_total_debt returns a total, the sum of the resolved long-term
\* components alone; the result is absent only when no debt tag is present
C25_LongTermWithoutShortTerm ==
    pc = "debt_done" =>
        /\ (/\ Present(LT_DEBT_INCLUDING_CURRENT_TAGS \o LT_DEBT_NONCURRENT_TAGS
                       \o LT_DEBT_CURRENT_TAGS) # {}
            /\ Present(ST_BORROWINGS_TAGS \o ST_BORROWINGS_COMPONENT_TAGS) = {})
           => /\ debt_result # None /\ debt_result # TypeError
              /\ debt_result.value
                     = IF Present(LT_DEBT_INCLUDING_CURRENT_TAGS) # {}
                       THEN FirstAmount(LT_DEBT_INCLUDING_CURRENT_TAGS)
                       ELSE FirstAmount(LT_DEBT_NONCURRENT_TAGS)
                            + FirstAmount(LT_DEBT_CURRENT_TAGS)
        /\ debt_result = None => DOMAIN gaap_data = {}

\* two or more current-portion tags are present and their values differ
ConflictingCurrentPortion ==
    /\ Cardinality(Present(LT_DEBT_CURRENT_TAGS)) >= 2
    /\ Cardinality({gaap_data[t][1].val : t \in Present(LT_DEBT_CURRENT_TAGS)}) >= 2

\* C19: when two or more current-portion tags are present with conflicting
\* values, total debt is withheld: no usable value is returned, and what is
\* returned carries a failure status and a reason
C19_ConflictWithheld ==
    (pc = "debt_done" /\ ConflictingCurrentPortion)
    => \/ debt_result = None
       \/ /\ debt_result # TypeError
          /\ "value" \notin DOMAIN debt_result
          /\ "status" \in DOMAIN debt_result
          /\ "reason" \in DOMAIN debt_result

\* the values of the current-portion tags of the view, in priority order
CurrentPortionValues ==
    LET present == SelectSeq(LT_DEBT_CURRENT_TAGS, LAMBDA t : t \in DOMAIN gaap_data)
    IN  [i \in DOMAIN present |-> gaap_data[present[i]][1].val]

\* the value of the first current-portion tag of the view, and only that one,
\* is added to the total, and the differing-values warning is attached
FirstCandidateUsed ==
    /\ debt_result # None /\ debt_result # TypeError
    /\ debt_result.value
           = TotalOf(CalculateTotalDebt(Without(Present(LT_DEBT_CURRENT_TAGS)), form_type))
             + AmountOf(FirstPresent(LT_DEBT_CURRENT_TAGS))
    /\ "lt_debt_current" \in DOMAIN debt_result.components
    /\ debt_result.components.lt_debt_current.tag = FirstPresent(LT_DEBT_CURRENT_TAGS)
    /\ \E i \in DOMAIN debt_result.warnings :
           /\ debt_result.warnings[i].warning
                  = "WARNING: tags for current portion with DIFFERENT values - using first one but needs review"
           /\ debt_result.warnings[i].count = Cardinality(Present(LT_DEBT_CURRENT_TAGS))
           /\ debt_result.warnings[i].values = CurrentPortionValues

\* C20, as stated: whenever two or more current-portion tags are present with
\* values that are not all equal, the value of the first of them in priority
\* order, and only that value, is added to the total, and a warning listing the
\* differing values is attached
C20_ConflictUsesFirst_AsStated ==
    (pc = "debt_done" /\ ConflictingCurrentPortion) => FirstCandidateUsed

\* C20, amended: the same when no including-current-maturities tag is present
\* (with one, the current-portion step is skipped: C4)
C20_ConflictUsesFirst ==
    (/\ pc = "debt_done"
     /\ Present(LT_DEBT_INCLUDING_CURRENT_TAGS) = {}
     /\ ConflictingCurrentPortion)
    => FirstCandidateUsed

\* C20 witness: current-portion tags of 2 and 1 beside a non-current tag of
\* 1, and the total returned is 3
C20_Witness ==
    /\ pc = "debt_done"
    /\ Present(LT_DEBT_INCLUDING_CURRENT_TAGS) = {}
    /\ Present(LT_DEBT_NONCURRENT_TAGS) # {}
    /\ \A t \in Present(LT_DEBT_NONCURRENT_TAGS) : gaap_data[t][1].val = Some(1)
    /\ CurrentPortionValues = <<Some(2), Some(1)>>
    /\ debt_result.value = 3
    /\ Len(debt_result.warnings) = 1

---------------------------------------------------------------------------
(* Specification of the ROCE calculation: the component results of one period
   view, as _extract_period_metrics computes them, then _calculate_roce *)

MaxAssets == 10

RoceTags == {"OperatingIncomeLoss", "Assets", "LiabilitiesCurrent"}

\* the values a tag of the view may carry: None is a null 'val'
\* the figures of the sample company (SAMPLE_APPLE_DATA_ENHANCED), in millions
\* of dollars: the ratio and its bands do not depend on the unit
SampleAssets == 352755

SampleCurrentLiabilities == 145308

SampleEbit == 114301

RoceValues(t) ==
    {None} \cup {Some(v) : v \in IF t = "OperatingIncomeLoss"
                                 THEN (0 - 1)..MaxAmount \cup {SampleEbit}
                                 ELSE IF t = "Assets"
                                 THEN 0..MaxAssets \cup {SampleAssets}
                                 ELSE 0..MaxAssets \cup {SampleCurrentLiabilities}}

InitRoce ==
    /\ pc = "roce_view"
    /\ form_type = FORM_10K
    /\ \E S \in SUBSET RoceTags :
           \E vals \in [S -> UNION {RoceValues(t) : t \in RoceTags}] :
               /\ \A t \in S : vals[t] \in RoceValues(t)
               /\ gaap_data = PeriodView(S, vals, FORM_10K)
    /\ tag_list = <<>>
    /\ tag_value = None
    /\ debt_result = None
    /\ RoceIdle /\ ParseIdle /\ ValidateIdle

CalculateComponentsStep ==
    /\ pc = "roce_view"
    /\ ebit_result' = CalculateEbit(gaap_data, form_type)
    /\ assets_result' = CalculateAssets(gaap_data, form_type)
    /\ current_liabilities_result' = CalculateCurrentLiabilities(gaap_data, form_type)
    /\ pc' = "roce"
    /\ UNCHANGED <<roce_result, cash_result, earnings_yield_components, calcVars, parseVars,
                   validateVars>>

CalculateRoceStep ==
    /\ pc = "roce"
    /\ roce_result' = CalculateRoce(ebit_result, assets_result, current_liabilities_result)
    /\ pc' = "roce_done"
    /\ UNCHANGED <<ebit_result, assets_result, current_liabilities_result, cash_result,
                   earnings_yield_components, calcVars, parseVars, validateVars>>

NextRoce == CalculateComponentsStep \/ CalculateRoceStep

SpecRoce == InitRoce /\ [][NextRoce]_vars

\* C5: with EBIT, assets and current liabilities all present and assets minus
\* current liabilities zero or negative, the ROCE result has the status
\* invalid_capital_employed and no value, and no division by zero is raised.
C5_NonPositiveCapitalEmployed ==
    (/\ pc = "roce_done"
     /\ ebit_result # None /\ assets_result # None /\ current_liabilities_result # None
     /\ assets_result.value - current_liabilities_result.value <= 0)
    => /\ roce_result # ZeroDivisionError
       /\ DOMAIN roce_result = {"value", "status", "capital_employed", "note"}
       /\ roce_result.status = "invalid_capital_employed"
       /\ roce_result.value = None
       /\ roce_result.capital_employed
              = assets_result.value - current_liabilities_result.value

\* C5 witness: positive EBIT over a capital employed of exactly zero
C5_Witness ==
    /\ pc = "roce_done"
    /\ ebit_result # None /\ assets_result # None /\ current_liabilities_result # None
    /\ ebit_result.value > 0
    /\ assets_result.value > 0
    /\ assets_result.value = current_liabilities_result.value
    /\ roce_result.status = "invalid_capital_employed"

\* the tags of a candidate list that the view holds with a populated value
Populated(tags) ==
    {t \in Range(tags) : t \in DOMAIN gaap_data /\ gaap_data[t][1].val # None}

\* C11: a balance-sheet metric none of whose candidate tags carries a populated
\* value is reported as unavailable: total assets need Assets, or AssetsCurrent
\* and AssetsNoncurrent; current liabilities need LiabilitiesCurrent, or
\* Liabilities and LiabilitiesNoncurrent.
C11_NoFabricatedValue ==
    pc \in {"roce", "roce_done"} =>
        /\ (/\ Populated(ASSETS_TAGS) = {}
            /\ (Populated(ASSETS_CURRENT_TAGS) = {} \/ Populated(ASSETS_NONCURRENT_TAGS) = {}))
           => assets_result = None
        /\ (/\ Populated(CURRENT_LIABILITIES_TAGS) = {}
            /\ (Populated(LIABILITIES_TAGS) = {}
                \/ Populated(NONCURRENT_LIABILITIES_TAGS) = {}))
           => current_liabilities_result = None

\* the three inputs of _calculate_roce under the names of its missing list
RoceInputs ==
    [ebit |-> ebit_result, assets |-> assets_result,
     current_liabilities |-> current_liabilities_result]

AbsentInputs == {k \in DOMAIN RoceInputs : RoceInputs[k] = None}

\* the period record _extract_period_metrics builds from the view
ViewRecord ==
    CalculatePeriodMetrics(gaap_data, ViewEnd,
                           [filed |-> FiledAfter(ViewEnd), form |-> form_type], form_type)

\* C13: when one or more of EBIT, assets and current liabilities is absent, the
\* ROCE result has status missing_components, no value, and a missing list that
\* names each absent input once and no present input; the period record of the
\* view is built and carries that ROCE result.
C13_MissingComponents ==
    (pc = "roce_done" /\ AbsentInputs # {})
    => /\ roce_result.status = "missing_components"
       /\ roce_result.value = None
       /\ Range(roce_result.missing) = AbsentInputs
       /\ Len(roce_result.missing) = Cardinality(AbsentInputs)
       /\ ViewRecord # TypeError
       /\ ViewRecord.fiscal_year_end = ViewEnd
       /\ ViewRecord.calculated_ratios.roce = roce_result
       /\ {"ebit", "assets", "current_liabilities"} \cap DOMAIN ViewRecord.metrics
              = DOMAIN RoceInputs \ AbsentInputs

\* C13 witness: assets alone are reported, and the missing list names EBIT and
\* current liabilities
C13_Witness ==
    /\ pc = "roce_done"
    /\ assets_result # None
    /\ AbsentInputs = {"ebit", "current_liabilities"}
    /\ roce_result.missing = <<"ebit", "current_liabilities">>
    /\ ViewRecord.calculated_ratios.roce.status = "missing_components"

\* the band an interpretation string opens with
Band(interpretation) ==
    CASE interpretation = "Excellent - High quality business with strong capital efficiency"
             -> "Excellent"
      [] interpretation = "Good - Above average capital efficiency" -> "Good"
      [] interpretation = "Average - Acceptable returns on capital" -> "Average"
      [] interpretation
             = "Below Average - May indicate capital inefficiency or competitive pressures"
             -> "Below Average"

\* C14: with the three inputs present and capital employed = assets - current
\* liabilities positive, the ROCE result has status success, the value
\* EBIT / capital employed x 100 (kept as the exact fraction), and the band
\* Excellent iff value > 25, Good iff 15 < value <= 25, Average iff
\* 10 < value <= 15, Below Average otherwise; for the sample company capital
\* employed is 207,447 (millions) and the band is Excellent.
C14_RoceBands ==
    (/\ pc = "roce_done"
     /\ AbsentInputs = {}
     /\ assets_result.value - current_liabilities_result.value > 0)
    => LET e == ebit_result.value
           ce == assets_result.value - current_liabilities_result.value
           band == Band(roce_result.interpretation)
       IN  /\ roce_result.status = "success"
           /\ roce_result.value = Some([numerator |-> e * 100, denominator |-> ce])
           /\ roce_result.components.capital_employed = ce
           /\ band = "Excellent" <=> e * 100 > 25 * ce
           /\ band = "Good" <=> (15 * ce < e * 100 /\ e * 100 <= 25 * ce)
           /\ band = "Average" <=> (10 * ce < e * 100 /\ e * 100 <= 15 * ce)
           /\ band = "Below Average" <=> e * 100 <= 10 * ce
           /\ (/\ assets_result.value = SampleAssets
               /\ current_liabilities_result.value = SampleCurrentLiabilities
               /\ e = SampleEbit)
              => (ce = 207447 /\ band = "Excellent")

\* C14 witness: the sample company
C14_Witness ==
    /\ pc = "roce_done"
    /\ AbsentInputs = {}
    /\ assets_result.value = SampleAssets
    /\ current_liabilities_result.value = SampleCurrentLiabilities
    /\ ebit_result.value = SampleEbit
    /\ roce_result.status = "success"
    /\ roce_result.components.capital_employed = 207447
    /\ Band(roce_result.interpretation) = "Excellent"

---------------------------------------------------------------------------
(* Specification of validate_ebit *)

MaxValidated == 3

MaxRevenues == 20

InitValidate ==
    /\ pc = "validate"
    /\ ebit \in (0 - MaxValidated)..MaxValidated
    /\ net_income \in {None} \cup {Some(v) : v \in (0 - MaxValidated)..MaxValidated}
    /\ revenues \in {None} \cup {Some(v) : v \in 0..MaxRevenues}
    /\ validation = None
    /\ ParseIdle /\ CalcIdle /\ RoceIdle

ValidateEbitStep ==
    /\ pc = "validate"
    /\ validation' = ValidateEbit(ebit, net_income, revenues)
    /\ pc' = "validated"
    /\ UNCHANGED <<ebit, net_income, revenues, parseVars, calcVars, roceVars>>

NextValidate == ValidateEbitStep

SpecValidate == InitValidate /\ [][NextValidate]_vars

\* C6: whenever a net income is supplied and EBIT is less than it,
\* validate_ebit returns is_valid false.
C6_EbitBelowNetIncome ==
    (pc = "validated" /\ net_income # None /\ ebit < net_income[1])
    => validation.is_valid = FALSE

\* C6 witness: a positive EBIT below the net income, with an EBIT margin in
\* the typical range, has been rejected
C6_Witness ==
    /\ pc = "validated"
    /\ ebit = 1
    /\ net_income = Some(2)
    /\ revenues = Some(10)
    /\ validation.is_valid = FALSE

\* C21: a non-positive EBIT and an EBIT margin outside the plausible band are
\* soft warnings only: validate_ebit returns is_valid true whenever no net
\* income is supplied or EBIT is at least the net income
C21_SoftWarningsOnly ==
    (pc = "validated" /\ (net_income = None \/ ebit >= net_income[1]))
    => validation.is_valid = TRUE

---------------------------------------------------------------------------
(* Specification of the EBIT calculator: calculate_ebit on the view of one
   period *)

EbitTags ==
    Range(OPERATING_INCOME_DIRECT_TAGS) \cup Range(REVENUES_TAGS)
    \cup Range(COSTS_AND_EXPENSES_TAGS) \cup Range(PRETAX_INCOME_TAGS)
    \cup Range(COGS_TAGS) \cup Range(OPERATING_EXPENSES_TAGS)
    \cup Range(NET_INCOME_TAGS) \cup Range(INCOME_TAX_TAGS)
    \cup Range(INTEREST_EXPENSE_TAGS)

MaxEbitTags == 3

\* amounts on both sides of the validation tolerance
EbitAmounts == {0, 1, Tolerance + 1}

InitEbit ==
    /\ pc = "ebit"
    /\ form_type = FORM_10K
    /\ \E S \in {T \in SUBSET EbitTags : Cardinality(T) <= MaxEbitTags} :
           \E vals \in [S -> {None} \cup {Some(v) : v \in EbitAmounts}] :
               gaap_data = PeriodView(S, vals, FORM_10K)
    /\ ebit_result = None
    /\ tag_list = <<>>
    /\ tag_value = None
    /\ debt_result = None
    /\ assets_result = None
    /\ current_liabilities_result = None
    /\ roce_result = None
    /\ cash_result = None
    /\ earnings_yield_components = None
    /\ ParseIdle /\ ValidateIdle

CalculateEbitStep ==
    /\ pc = "ebit"
    /\ ebit_result' = CalculateEbit(gaap_data, form_type)
    /\ pc' = "ebit_done"
    /\ UNCHANGED <<assets_result, current_liabilities_result, roce_result, cash_result,
                   earnings_yield_components, calcVars, parseVars, validateVars>>

NextEbit == CalculateEbitStep

SpecEbit == InitEbit /\ [][NextEbit]_vars

\* what a component resolves with in the view: the value of the first
\* candidate the view holds, None when it holds no candidate or a null value
ComponentValue(tags) ==
    IF Present(tags) = {} THEN None ELSE gaap_data[FirstPresent(tags)][1].val

\* tier n's formula over the components, None unless every one has a value
TierFormula(n) ==
    LET oi == ComponentValue(OPERATING_INCOME_DIRECT_TAGS)
        rev == ComponentValue(REVENUES_TAGS)
        costs == ComponentValue(COSTS_AND_EXPENSES_TAGS)
        cogs == ComponentValue(COGS_TAGS)
        opex == ComponentValue(OPERATING_EXPENSES_TAGS)
        ni == ComponentValue(NET_INCOME_TAGS)
        tax == ComponentValue(INCOME_TAX_TAGS)
        interest == ComponentValue(INTEREST_EXPENSE_TAGS)
        pretax == ComponentValue(PRETAX_INCOME_TAGS)
    IN  CASE n = 1 -> IF oi # None THEN oi
                      ELSE IF rev # None /\ costs # None THEN Some(rev[1] - costs[1])
                      ELSE None
          [] n = 2 -> IF rev # None /\ cogs # None /\ opex # None
                      THEN Some(rev[1] - cogs[1] - opex[1]) ELSE None
          [] n = 3 -> IF ni # None /\ tax # None /\ interest # None
                      THEN Some(ni[1] + tax[1] + interest[1]) ELSE None
          [] n = 4 -> IF pretax # None /\ interest # None
                      THEN Some(pretax[1] + interest[1]) ELSE None

\* C7: calculate_ebit returns the result of the lowest-numbered tier all of
\* whose components resolve with a value, with that tier's number and the
\* value of its formula; there is no result iff no tier has all its components.
C7_LowestTierWins ==
    pc = "ebit_done"
    => LET succeeding == {n \in 1..4 : TierFormula(n) # None}
       IN  IF succeeding = {} THEN ebit_result = None
           ELSE LET lowest == CHOOSE n \in succeeding : \A m \in succeeding : n <= m
                IN  /\ ebit_result # None
                    /\ ebit_result.tier = lowest
                    /\ ebit_result.value = TierFormula(lowest)[1]

\* C7 witness: net income, income tax and interest expense have values and
\* tiers 1 and 2 lack a component: the result is tier 3's sum
C7_Witness ==
    /\ pc = "ebit_done"
    /\ TierFormula(1) = None /\ TierFormula(2) = None
    /\ TierFormula(3) = Some(3)
    /\ ebit_result # None
    /\ ebit_result.tier = 3
    /\ ebit_result.value = 3

\* the result carries a validation warning
HasWarning(result) == result.validation # None /\ result.validation.status = "warning"

\* C8: when the direct operating-income tag does not resolve with a value and
\* revenue and costs-and-expenses both do, the result is revenue - costs at
\* tier 1 in every case, and its validation note is a warning exactly when
\* pre-tax income resolves with a value and |value - pre-tax income| exceeds
\* 1,000,000.
C8_RevenueMinusCosts ==
    (/\ pc = "ebit_done"
     /\ ComponentValue(OPERATING_INCOME_DIRECT_TAGS) = None
     /\ ComponentValue(REVENUES_TAGS) # None
     /\ ComponentValue(COSTS_AND_EXPENSES_TAGS) # None)
    => LET value == ComponentValue(REVENUES_TAGS)[1] - ComponentValue(COSTS_AND_EXPENSES_TAGS)[1]
           pretax == ComponentValue(PRETAX_INCOME_TAGS)
       IN  /\ ebit_result # None
           /\ ebit_result.tier = 1
           /\ ebit_result.value = value
           /\ ebit_result.method = "Revenues - CostsAndExpenses"
           /\ HasWarning(ebit_result)
                  <=> (pretax # None /\ Abs(value - pretax[1]) > 1000000)
           /\ (pretax # None /\ Abs(value - pretax[1]) <= 1000000)
                  => (ebit_result.validation # None
                      /\ ebit_result.validation.status = "passed")
           /\ pretax = None => ebit_result.validation = None

\* C8 witness: revenue - costs differs from the pre-tax income by 1,000,001
\* and is returned at tier 1 with the warning
C8_Witness ==
    /\ pc = "ebit_done"
    /\ ComponentValue(OPERATING_INCOME_DIRECT_TAGS) = None
    /\ ComponentValue(REVENUES_TAGS) = Some(1000001)
    /\ ComponentValue(COSTS_AND_EXPENSES_TAGS) = Some(0)
    /\ ComponentValue(PRETAX_INCOME_TAGS) = Some(0)
    /\ ebit_result # None
    /\ ebit_result.tier = 1
    /\ ebit_result.value = 1000001
    /\ HasWarning(ebit_result)

---------------------------------------------------------------------------
(* Specification of the tag resolver: _get_tag_value on a fact set in which a
   tag may have several observations, of either form and of two period ends *)

ResolverTags == Range(INTEREST_EXPENSE_TAGS)

MaxObs == 2

\* the observations a tag may carry: a null or a populated value
ResolverObservations ==
    {Observation(v, e, FiledAfter(e), f) :
        v \in {None, Some(1)}, e \in {ViewEnd - 10000, ViewEnd}, f \in Forms}

ObservationLists == UNION {[1..n -> ResolverObservations] : n \in 0..MaxObs}

\* the candidate lists: the tags in either priority order, one alone, none
CandidateLists ==
    {<<>>} \cup {<<t>> : t \in ResolverTags}
    \cup {<<p[1], p[2]>> : p \in {q \in ResolverTags \X ResolverTags : q[1] # q[2]}}

InitResolver ==
    /\ pc = "resolve"
    /\ \E obs \in [ResolverTags -> ObservationLists] :
           gaap_data = [t \in {u \in ResolverTags : obs[u] # <<>>} |-> obs[t]]
    /\ tag_list \in CandidateLists
    /\ form_type \in Forms
    /\ tag_value = None
    /\ debt_result = None
    /\ ParseIdle /\ RoceIdle /\ ValidateIdle

GetTagValueStep ==
    /\ pc = "resolve"
    /\ tag_value' = GetTagValue(gaap_data, tag_list, form_type)
    /\ pc' = "resolved"
    /\ UNCHANGED <<gaap_data, form_type, tag_list, debt_result, parseVars, roceVars,
                   validateVars>>

NextResolver == GetTagValueStep

SpecResolver == InitResolver /\ [][NextResolver]_vars

\* the populated observations of the requested form that the facts hold for t
PopulatedObservations(t) ==
    IF t \in DOMAIN gaap_data
    THEN {gaap_data[t][i] : i \in {j \in DOMAIN gaap_data[t] :
                                       /\ gaap_data[t][j].form = form_type
                                       /\ gaap_data[t][j].val # None}}
    ELSE {}

\* C9: the resolver returns the value of the first candidate in priority order
\* that has a populated observation of the requested form, and absence when no
\* candidate has one; an unpopulated candidate of higher priority never stands
\* in the way of a populated one.
C9_FirstPopulatedCandidate ==
    pc = "resolved"
    => LET populated == {i \in DOMAIN tag_list : PopulatedObservations(tag_list[i]) # {}}
       IN  IF populated = {} THEN tag_value = None
           ELSE LET first == CHOOSE i \in populated : \A j \in populated : i <= j
                IN  /\ tag_value # None
                    /\ tag_value.tag = tag_list[first]
                    /\ \E o \in PopulatedObservations(tag_list[first]) :
                           tag_value.val = o.val

---------------------------------------------------------------------------
(* Specification of the parse of a company: parse_company_data on raw facts
   in which every tag has observations of its own set of period ends and
   forms *)

PipelineTags ==
    {"Assets", "OperatingIncomeLoss", "LiabilitiesCurrent", "LongTermDebtNoncurrent",
     "CashAndCashEquivalentsAtCarryingValue"}

PeriodEnds == <<ViewEnd - 10000, ViewEnd>>

\* an observation is numbered by its period end and form, and carries its
\* number as its value, so that a value names the observation it comes from
ObservationCodes == 1..(2 * Len(PeriodEnds))

CodedObservation(c) ==
    LET end == PeriodEnds[(c + 1) \div 2]
    IN  Observation(Some(c), end, FiledAfter(end), IF c % 2 = 1 THEN FORM_10K ELSE FORM_10Q)

MaxFacts == 5

\* the raw facts that hold the observations of F, a set of <<tag, code>> pairs
FactsOf(F) ==
    [t \in {x[1] : x \in F} |->
        LET codes == SetToSeq({x[2] : x \in {y \in F : y[1] = t}})
        IN  [i \in DOMAIN codes |-> CodedObservation(codes[i])]]

Init ==
    /\ pc = "facts"
    /\ \E F \in {G \in SUBSET (PipelineTags \X ObservationCodes) : Cardinality(G) <= MaxFacts} :
           facts = FactsOf(F)
    /\ include_quarterly \in BOOLEAN
    /\ parsed = None
    /\ quarterly_periods = <<>>
    /\ identified_periods = None /\ requested_end = 0
    /\ CalcIdle /\ RoceIdle /\ ValidateIdle

ParseCompanyDataStep ==
    /\ pc = "facts"
    /\ parsed' = ParseCompanyData(facts, include_quarterly)
    /\ pc' = "parsed"
    /\ UNCHANGED <<facts, include_quarterly, quarterly_periods, identified_periods,
                   requested_end, calcVars,
                   roceVars,
                   validateVars>>

Next == ParseCompanyDataStep

Spec == Init /\ [][Next]_vars

\* the source observations of a result that names them under 'source' or 'sources'
NestedSources(result) ==
    IF result = None THEN {}
    ELSE IF "source" \in DOMAIN result THEN {result.source}
    ELSE IF "sources" \in DOMAIN result
    THEN {result.sources[k] : k \in DOMAIN result.sources}
    ELSE {}

\* the source observations of a result that names them under 'components',
\* one of which (nested) is itself a result
ComponentSources(result, nested) ==
    IF result = None THEN {}
    ELSE UNION {IF k = nested THEN NestedSources(result.components[k])
                ELSE {result.components[k]} : k \in DOMAIN result.components}

\* every source observation the metrics of a period record were computed from
SourcesOfRecord(record) ==
    LET metrics == record.metrics
    IN  NestedSources(GetRaw(metrics, "ebit"))
        \cup ComponentSources(GetRaw(metrics, "total_debt"), "st_borrowings")
        \cup ComponentSources(GetRaw(metrics, "cash"), "restricted")
        \cup NestedSources(GetRaw(metrics, "assets"))
        \cup NestedSources(GetRaw(metrics, "current_liabilities"))

\* the period records of a parse result, annual and interim
RecordsOf(result) ==
    Range(result.annual_periods) \cup Range(result.quarterly_periods)

\* the observations of the raw facts a source was read from
ObservationsOf(source) ==
    IF source.tag \in DOMAIN facts
    THEN {facts[source.tag][i] : i \in {j \in DOMAIN facts[source.tag] :
              /\ facts[source.tag][j].val = source.val
              /\ facts[source.tag][j].end = source.end
              /\ facts[source.tag][j].filed = source.filed}}
    ELSE {}

\* C10: in every period record, every source observation used by the EBIT,
\* debt, cash, assets and current-liabilities results has the record's period
\* end, and is an observation of the raw facts of the record's form.
C10_SourcesOfThePeriod ==
    (pc = "parsed" /\ parsed # TypeError)
    => \A record \in RecordsOf(parsed) :
           \A source \in SourcesOfRecord(record) :
               /\ source.end = record.fiscal_year_end
               /\ ObservationsOf(source) # {}
               /\ \A o \in ObservationsOf(source) : o.form = record.form

\* C10 witness: two annual periods; operating income is reported for the
\* earlier one only and current liabilities for the later one only, and each
\* record carries just the metric reported for its own period
C10_Witness ==
    /\ pc = "parsed" /\ parsed # TypeError
    /\ Len(parsed.annual_periods) = 2
    /\ LET later == parsed.annual_periods[1]
           earlier == parsed.annual_periods[2]
       IN  /\ later.fiscal_year_end > earlier.fiscal_year_end
           /\ "ebit" \notin DOMAIN later.metrics
           /\ "current_liabilities" \in DOMAIN later.metrics
           /\ "ebit" \in DOMAIN earlier.metrics
           /\ "current_liabilities" \notin DOMAIN earlier.metrics
           /\ \E source \in SourcesOfRecord(earlier) : source.tag = "OperatingIncomeLoss"
           /\ \E i \in DOMAIN facts["OperatingIncomeLoss"] :
                  facts["OperatingIncomeLoss"][i].form = FORM_10Q

---------------------------------------------------------------------------
(* Specification of the parse of a company with incomplete data:
   parse_company_data on raw facts in which tags are missing, periods are
   missing from a tag and values are null *)

IncompleteTags ==
    {"Assets", "OperatingIncomeLoss", "LiabilitiesCurrent", "LongTermDebtCurrent",
     "LongTermDebtAndCapitalLeaseObligationsCurrent"}

MaxIncomplete == 4

\* the raw facts that hold, for every <<tag, period>> pair of C, one
\* observation of form ft whose value is vals of the pair (None: a null 'val')
IncompleteFacts(C, vals, ft) ==
    [t \in {x[1] : x \in C} |->
        LET ks == SetToSeq({x[2] : x \in {y \in C : y[1] = t}})
        IN  [i \in DOMAIN ks |->
                Observation(vals[<<t, ks[i]>>], PeriodEnds[ks[i]],
                            FiledAfter(PeriodEnds[ks[i]]), ft)]]

InitIncomplete ==
    /\ pc = "facts"
    /\ \E C \in {D \in SUBSET (IncompleteTags \X DOMAIN PeriodEnds) :
                    Cardinality(D) <= MaxIncomplete} :
           \E vals \in [C -> {None, Some(1)}] :
               \E ft \in Forms : facts = IncompleteFacts(C, vals, ft)
    /\ include_quarterly \in BOOLEAN
    /\ parsed = None
    /\ quarterly_periods = <<>>
    /\ identified_periods = None /\ requested_end = 0
    /\ CalcIdle /\ RoceIdle /\ ValidateIdle

NextIncomplete == ParseCompanyDataStep

SpecIncomplete == InitIncomplete /\ [][NextIncomplete]_vars

\* the period ends of the Assets observations of a form in the raw facts
DiscoveredEnds(ft) ==
    IF "Assets" \in DOMAIN facts
    THEN {facts["Assets"][i].end :
             i \in {j \in DOMAIN facts["Assets"] : facts["Assets"][j].form = ft}}
    ELSE {}

\* the period ends of a list of period records
EndsOf(periods) == {periods[i].fiscal_year_end : i \in DOMAIN periods}

\* C12: whatever tags are missing and whatever values are null, the parse
\* returns without raising, with one annual record per period end discovered
\* among the 10-K Assets observations and, when interim periods are asked for,
\* one interim record per period end discovered among the 10-Q ones.
C12_ParseNeverRaises ==
    pc = "parsed" =>
        /\ parsed # TypeError
        /\ EndsOf(parsed.annual_periods) = DiscoveredEnds(FORM_10K)
        /\ Len(parsed.annual_periods) = Cardinality(DiscoveredEnds(FORM_10K))
        /\ include_quarterly =>
               /\ EndsOf(parsed.quarterly_periods) = DiscoveredEnds(FORM_10Q)
               /\ Len(parsed.quarterly_periods) = Cardinality(DiscoveredEnds(FORM_10Q))

---------------------------------------------------------------------------
(* Specification of period discovery and alignment: extract_all_periods
   identifies the periods of a form type from the Assets history of the
   company, then _extract_period_metrics builds the view of the facts for one
   of the identified periods *)

MaxFilings == 3

\* what a filing reports for a tag: the period end, whether the filing is a
\* restatement (filed one month after the original), and the form
FilingKinds == Range(PeriodEnds) \X {0, 100} \X Forms

FilingLists == UNION {[1..n -> FilingKinds] : n \in 0..MaxFilings}

\* the observation history of a tag, in the order of the list; the values
\* number the observations
FilingHistory(kinds) ==
    [i \in DOMAIN kinds |-> Observation(Some(i), kinds[i][1],
                                        FiledAfter(kinds[i][1]) + kinds[i][2], kinds[i][3])]

\* a tag is in the facts when the company reported it at least once
TagHistory(tag, kinds) == IF kinds = <<>> THEN <<>> ELSE tag :> FilingHistory(kinds)

InitPeriods ==
    /\ pc = "discover"
    /\ \E assets \in FilingLists :
           \E liabilities \in {l \in FilingLists : Len(l) <= 1} :
               facts = TagHistory("Assets", assets)
                       @@ TagHistory("LiabilitiesCurrent", liabilities)
    /\ form_type \in Forms
    /\ identified_periods = None /\ requested_end = 0
    /\ include_quarterly = FALSE /\ parsed = None /\ quarterly_periods = <<>>
    /\ gaap_data = None /\ tag_list = <<>> /\ tag_value = None /\ debt_result = None
    /\ RoceIdle /\ ValidateIdle

\* periods = self._identify_fiscal_periods(facts, form_type)
IdentifyFiscalPeriodsStep ==
    /\ pc = "discover"
    /\ identified_periods' = IdentifyFiscalPeriods(facts, form_type)
    /\ pc' = "identified"
    /\ UNCHANGED <<facts, include_quarterly, parsed, quarterly_periods, requested_end, calcVars,
                   roceVars, validateVars>>

\* for period_end in periods: period_gaap_data = self._filter_gaap_to_period(...)
FilterGaapToPeriodStep ==
    /\ pc = "identified"
    /\ \E e \in DOMAIN identified_periods :
           /\ requested_end' = e
           /\ gaap_data' = FilterGaapToPeriod(facts, e, form_type)
    /\ pc' = "filtered"
    /\ UNCHANGED <<facts, include_quarterly, parsed, quarterly_periods, identified_periods,
                   form_type,
                   tag_list, tag_value, debt_result, roceVars, validateVars>>

NextPeriods == IdentifyFiscalPeriodsStep \/ FilterGaapToPeriodStep

SpecPeriods == InitPeriods /\ [][NextPeriods]_vars

\* the Assets observations of the requested form type
AssetsFilings ==
    IF "Assets" \in DOMAIN facts
    THEN SelectSeq(facts["Assets"], LAMBDA v : v.form = form_type)
    ELSE <<>>

\* C15: _identify_fiscal_periods returns one period per distinct period end
\* among the Assets observations of the requested form type, and the filing
\* date of a period is the greatest filed date among the Assets observations of
\* that period end and form type, in whatever order they appear
C15_OnePeriodPerEnd ==
    pc \in {"identified", "filtered"} =>
        /\ DOMAIN identified_periods = {v.end : v \in Range(AssetsFilings)}
        /\ \A e \in DOMAIN identified_periods :
               /\ identified_periods[e].form = form_type
               /\ \E v \in Range(AssetsFilings) :
                      v.end = e /\ v.filed = identified_periods[e].filed
               /\ \A v \in Range(AssetsFilings) :
                      v.end = e => v.filed <= identified_periods[e].filed

\* a restatement listed before the original filing of the same period, and a
\* second period
C15_Witness ==
    /\ pc = "identified"
    /\ Len(AssetsFilings) = 3
    /\ AssetsFilings[1].end = AssetsFilings[2].end
    /\ AssetsFilings[1].filed > AssetsFilings[2].filed
    /\ AssetsFilings[3].end # AssetsFilings[1].end
    /\ Cardinality(DOMAIN identified_periods) = 2
    /\ identified_periods[AssetsFilings[1].end].filed = AssetsFilings[1].filed

\* the observations of a tag for the requested period end and form type
MatchingObservations(tag) ==
    {v \in Range(facts[tag]) : v.end = requested_end /\ v.form = form_type}

\* C16: _filter_gaap_to_period keeps, for each tag with at least one
\* observation of the requested period end and form type, exactly one
\* observation, the one with the greatest filed date among those matching;
\* a tag with no matching observation is absent from the view
C16_MostRecentlyFiledPerTag ==
    pc = "filtered" =>
        /\ DOMAIN gaap_data = {t \in DOMAIN facts : MatchingObservations(t) # {}}
        /\ \A t \in DOMAIN gaap_data :
               /\ Len(gaap_data[t]) = 1
               /\ gaap_data[t][1] \in MatchingObservations(t)
               /\ \A v \in MatchingObservations(t) : v.filed <= gaap_data[t][1].filed

\* the restated Assets value, listed after the original one, supersedes it,
\* and the other tag, reported for another period only, is not in the view
C16_Witness ==
    /\ pc = "filtered"
    /\ "LiabilitiesCurrent" \in DOMAIN facts \ DOMAIN gaap_data
    /\ Len(facts["Assets"]) >= 2
    /\ facts["Assets"][1] \in MatchingObservations("Assets")
    /\ facts["Assets"][2] \in MatchingObservations("Assets")
    /\ facts["Assets"][1].filed < facts["Assets"][2].filed
    /\ gaap_data["Assets"] = <<facts["Assets"][2]>>

---------------------------------------------------------------------------
(* Specification of the order of the periods: parse_company_data on a company
   whose filings report Assets and OperatingIncomeLoss for interim and annual
   periods, listed in any order *)

\* the filings of a company: a period end of one or the other fiscal year and
\* the form, each filed once
OrderKinds == QuarterEnds \X {0} \X Forms

InitOrder ==
    /\ pc = "facts"
    /\ \E kinds \in UNION {[1..n -> OrderKinds] : n \in 0..MaxFilings} :
           facts = TagHistory("Assets", kinds) @@ TagHistory("OperatingIncomeLoss", kinds)
    /\ include_quarterly \in BOOLEAN
    /\ parsed = None
    /\ quarterly_periods = <<>>
    /\ identified_periods = None /\ requested_end = 0
    /\ CalcIdle /\ RoceIdle /\ ValidateIdle

NextOrder == ParseCompanyDataStep

SpecOrder == InitOrder /\ [][NextOrder]_vars

\* the period ends of a list of records, in list order
EndsInOrder(records) == [i \in DOMAIN records |-> records[i].fiscal_year_end]

StrictlyDescending(ends) == \A i, j \in DOMAIN ends : i < j => ends[i] > ends[j]

\* C17: in the result of parse_company_data, annual_periods and
\* quarterly_periods are sorted by period end strictly descending, and the
\* de-cumulation pass leaves quarterly_periods in the order extract_all_periods
\* gave it
C17_PeriodsDescending ==
    pc = "parsed" =>
        /\ StrictlyDescending(EndsInOrder(parsed.annual_periods))
        /\ StrictlyDescending(EndsInOrder(parsed.quarterly_periods))
        /\ include_quarterly =>
               EndsInOrder(parsed.quarterly_periods)
                   = EndsInOrder(ExtractAllPeriods(facts, FORM_10Q))

\* three interim periods of one fiscal year, filed in neither ascending nor
\* descending order, the last two of them de-cumulated
C17_Witness ==
    /\ pc = "parsed"
    /\ include_quarterly
    /\ "Assets" \in DOMAIN facts
    /\ \A v \in Range(facts["Assets"]) : v.form = FORM_10Q
    /\ [i \in DOMAIN facts["Assets"] |-> facts["Assets"][i].end]
           = <<QuarterEnd(2), QuarterEnd(3), QuarterEnd(1)>>
    /\ EndsInOrder(parsed.quarterly_periods) = <<QuarterEnd(3), QuarterEnd(2), QuarterEnd(1)>>
    /\ parsed.quarterly_periods[1].metrics.ebit.quarterly_value = Some(1)
    /\ parsed.quarterly_periods[2].metrics.ebit.quarterly_value = Some(-2)
    /\ parsed.quarterly_periods[3].metrics.ebit.quarterly_value = Some(3)

---------------------------------------------------------------------------
(* Specification of the cash calculator and of the earnings-yield components:
   _extract_period_metrics calculates EBIT, total debt and cash on the view of
   one period and hands the three results to
   _calculate_earnings_yield_components *)

YieldTags ==
    {"OperatingIncomeLoss", "LongTermDebtNoncurrent"}
    \cup Range(UNRESTRICTED_CASH_TAGS) \cup Range(TOTAL_CASH_TAGS)
    \cup Range(RESTRICTED_CASH_TAGS) \cup Range(RESTRICTED_CASH_CURRENT_TAGS)
    \cup Range(RESTRICTED_CASH_NONCURRENT_TAGS)

MaxYieldTags == 4

MaxCash == 2

InitYield ==
    /\ pc = "yield_view"
    /\ form_type = FORM_10K
    /\ \E S \in {T \in SUBSET YieldTags : Cardinality(T) <= MaxYieldTags} :
           \E vals \in [S -> {None} \cup {Some(v) : v \in 0..MaxCash}] :
               gaap_data = PeriodView(S, vals, FORM_10K)
    /\ tag_list = <<>>
    /\ tag_value = None
    /\ debt_result = None
    /\ RoceIdle /\ ParseIdle /\ ValidateIdle

\* ebit_result, debt_result and cash_result of _extract_period_metrics
CalculateYieldInputsStep ==
    /\ pc = "yield_view"
    /\ ebit_result' = CalculateEbit(gaap_data, form_type)
    /\ debt_result' = CalculateTotalDebt(gaap_data, form_type)
    /\ cash_result' = CalculateCash(gaap_data, form_type)
    /\ pc' = "yield"
    /\ UNCHANGED <<gaap_data, form_type, tag_list, tag_value, assets_result,
                   current_liabilities_result, roce_result, earnings_yield_components,
                   parseVars, validateVars>>

CalculateEarningsYieldStep ==
    /\ pc = "yield"
    /\ earnings_yield_components'
           = CalculateEarningsYieldComponents(ebit_result, debt_result, cash_result)
    /\ pc' = "yield_done"
    /\ UNCHANGED <<ebit_result, assets_result, current_liabilities_result, roce_result,
                   cash_result, calcVars, parseVars, validateVars>>

NextYield == CalculateYieldInputsStep \/ CalculateEarningsYieldStep

SpecYield == InitYield /\ [][NextYield]_vars

\* the restricted cash of the view: the direct tag, else the sum of the
\* current and non-current tags (0 when none of the three is present)
RestrictedAmount ==
    IF Present(RESTRICTED_CASH_TAGS) # {}
    THEN AmountOf("RestrictedCashAndCashEquivalentsAtCarryingValue")
    ELSE AmountOf("RestrictedCashCurrent") + AmountOf("RestrictedCashNoncurrent")

RestrictedResolves ==
    Present(RESTRICTED_CASH_TAGS \o RESTRICTED_CASH_CURRENT_TAGS
            \o RESTRICTED_CASH_NONCURRENT_TAGS) # {}

\* the scenario a method string of calculate_cash stands for
ScenarioOf(method) ==
    CASE method \in {"Direct unrestricted + calculated total",
                     "Direct unrestricted (no restricted cash)"} -> 1
      [] method = "Calculated: Total cash - Restricted cash" -> 2
      [] method = "Total cash (assuming no restricted cash)" -> 3

AbsentYieldInputs ==
    {k \in {"ebit", "total_debt", "cash"} :
        [ebit |-> ebit_result, total_debt |-> debt_result, cash |-> cash_result][k] = None}

\* C26: _calculate_earnings_yield_components returns status success iff the
\* EBIT, total debt and cash results are all present, and then net_debt is the
\* total debt less the unrestricted cash; otherwise it returns status
\* missing_components with a missing list of exactly the absent inputs; it
\* never returns an earnings-yield ratio
C26_EarningsYieldComponents ==
    pc = "yield_done" =>
        IF AbsentYieldInputs = {}
        THEN /\ earnings_yield_components.status = "success"
             /\ earnings_yield_components.ebit = ebit_result.value
             /\ earnings_yield_components.total_debt = debt_result.value
             /\ earnings_yield_components.unrestricted_cash = cash_result.unrestricted_cash
             /\ earnings_yield_components.net_debt
                    = debt_result.value - cash_result.unrestricted_cash
             /\ DOMAIN earnings_yield_components
                    = {"status", "ebit", "total_debt", "unrestricted_cash", "net_debt",
                       "formula", "formula_expanded", "note", "ready_for_calculation"}
        ELSE /\ earnings_yield_components.status = "missing_components"
             /\ Range(earnings_yield_components.missing) = AbsentYieldInputs
             /\ Len(earnings_yield_components.missing) = Cardinality(AbsentYieldInputs)
             /\ DOMAIN earnings_yield_components = {"status", "missing"}

\* C26 witness: EBIT 1, debt 2, unrestricted cash 1 and restricted cash 2:
\* net debt is 2 - 1, not 2 - 3
C26_Witness ==
    /\ pc = "yield_done"
    /\ AbsentYieldInputs = {}
    /\ ebit_result.value = 1
    /\ debt_result.value = 2
    /\ cash_result.unrestricted_cash = 1
    /\ cash_result.total_cash = 3
    /\ earnings_yield_components.net_debt = 1

---------------------------------------------------------------------------
(* Specification of the parse of a company that reports the direct tags of
   the five metrics in every filing, for interim and annual periods listed in
   any order *)

InitFrame ==
    /\ pc = "facts"
    /\ \E kinds \in UNION {[1..n -> OrderKinds] : n \in 0..MaxFilings} :
           facts = IF kinds = <<>> THEN <<>>
                   ELSE [t \in PipelineTags |-> FilingHistory(kinds)]
    /\ include_quarterly \in BOOLEAN
    /\ parsed = None
    /\ quarterly_periods = <<>>
    /\ identified_periods = None /\ requested_end = 0
    /\ CalcIdle /\ RoceIdle /\ ValidateIdle

SpecFrame == InitFrame /\ [][ParseCompanyDataStep]_vars

\* the fields the de-cumulation pass may add to an EBIT result
DeCumulationFields ==
    {"ytd_value", "quarterly_value", "is_q1", "is_calculated", "calculation_failed",
     "calculation_note", "previous_quarter_ytd"}

\* the record after is the record before, but for fields added to its EBIT
\* result and for the calculation log attached after the pass
OnlyEbitFieldsAdded(before, after) ==
    /\ DOMAIN after = DOMAIN before \cup {"calculation_log"}
    /\ \A k \in DOMAIN before \ {"metrics"} : after[k] = before[k]
    /\ DOMAIN after.metrics = DOMAIN before.metrics
    /\ \A m \in DOMAIN before.metrics \ {"ebit"} : after.metrics[m] = before.metrics[m]
    /\ "ebit" \in DOMAIN before.metrics
       => /\ DOMAIN before.metrics.ebit \subseteq DOMAIN after.metrics.ebit
          /\ DOMAIN after.metrics.ebit \ DOMAIN before.metrics.ebit
                 \subseteq DeCumulationFields
          /\ \A k \in DOMAIN before.metrics.ebit :
                 after.metrics.ebit[k] = before.metrics.ebit[k]

\* C23: the de-cumulation pass only adds fields to the EBIT results of the
\* interim periods: the other metrics, the ratios, the period end and filing
\* date, and the EBIT result's own value, method, tier and sources are as
\* extract_all_periods returned them, and the annual records are not touched
C23_OnlyEbitDeCumulated ==
    pc = "parsed" =>
        LET quarterly == ExtractAllPeriods(facts, FORM_10Q)
            annual == ExtractAllPeriods(facts, FORM_10K)
        IN  /\ include_quarterly =>
                   /\ Len(parsed.quarterly_periods) = Len(quarterly)
                   /\ \A i \in DOMAIN parsed.quarterly_periods :
                          OnlyEbitFieldsAdded(quarterly[i], parsed.quarterly_periods[i])
            /\ Len(parsed.annual_periods) = Len(annual)
            /\ \A i \in DOMAIN parsed.annual_periods :
                   /\ DOMAIN parsed.annual_periods[i]
                          = DOMAIN annual[i] \cup {"calculation_log"}
                   /\ \A k \in DOMAIN annual[i] : parsed.annual_periods[i][k] = annual[i][k]

\* C23 witness: an annual period and two interim periods of one year, the
\* later one de-cumulated to a figure other than its reported value, all with
\* the five metrics
C23_Witness ==
    /\ pc = "parsed"
    /\ include_quarterly
    /\ Len(parsed.annual_periods) = 1
    /\ Len(parsed.quarterly_periods) = 2
    /\ \A i \in 1..2 :
           DOMAIN parsed.quarterly_periods[i].metrics
               = {"ebit", "total_debt", "cash", "assets", "current_liabilities"}
    /\ "is_calculated" \in DOMAIN parsed.quarterly_periods[1].metrics.ebit
    /\ parsed.quarterly_periods[1].metrics.ebit.quarterly_value
           # Some(parsed.quarterly_periods[1].metrics.ebit.value)
    /\ parsed.quarterly_periods[1].metrics.ebit.ytd_value
           = parsed.quarterly_periods[1].metrics.ebit.value

---------------------------------------------------------------------------
(* The calculation log of the periods of the parse (specification Spec) *)

\* the records of the result, annual and interim
ParsedRecords == Range(parsed.annual_periods) \cup Range(parsed.quarterly_periods)

\* C24: for every period record and every metric of its metrics map, the
\* entry of the metric in the record's calculation log carries the value and
\* the method of the metric result, and never an absent value
C24_LogMatchesMetrics ==
    pc = "parsed" =>
        \A r \in ParsedRecords : \A m \in DOMAIN r.metrics :
            /\ m \in DOMAIN r.calculation_log.metrics_extracted
            /\ r.calculation_log.metrics_extracted[m].method = Some(r.metrics[m].method)
            /\ r.calculation_log.metrics_extracted[m].value # None
            /\ "value" \in DOMAIN r.metrics[m]
               => r.calculation_log.metrics_extracted[m].value = Some(r.metrics[m].value)

---------------------------------------------------------------------------
(* The most recent observation of the resolved tag (specification
   SpecResolver) *)

\* the first candidate tag with observations of the requested form
FirstWithForm ==
    tag_list[CHOOSE i \in DOMAIN tag_list :
                 /\ tag_list[i] \in DOMAIN gaap_data
                 /\ FormValues(gaap_data[tag_list[i]], form_type) # <<>>
                 /\ \A j \in 1..(i - 1) :
                        \/ tag_list[j] \notin DOMAIN gaap_data
                        \/ FormValues(gaap_data[tag_list[j]], form_type) = <<>>]

\* the facts with the observations of a tag stored in the opposite order
StoredInReverse(tag) ==
    [gaap_data EXCEPT ![tag] = [i \in DOMAIN @ |-> @[Len(@) + 1 - i]]]

\* C27: within the first candidate tag with observations of the requested
\* form, the resolver returns the value, end and filed date of one observation,
\* which no other observation of that form exceeds in (period end, filed), and
\* the result does not depend on the order in which the observations are stored
C27_MostRecentObservation ==
    (pc = "resolved" /\ tag_value # None)
    => /\ tag_value.tag = FirstWithForm
       /\ \E o \in Range(FormValues(gaap_data[FirstWithForm], form_type)) :
              /\ TagData(o, FirstWithForm) = tag_value
              /\ \A other \in Range(FormValues(gaap_data[FirstWithForm], form_type)) :
                     ~KeyLess(o, other)
       /\ GetTagValue(StoredInReverse(FirstWithForm), tag_list, form_type) = tag_value

---------------------------------------------------------------------------
(* Specification of the parse of a company whose facts hold the assets
   fallback tags: parse_company_data on raw facts in which Assets, its two
   component tags and the other ROCE inputs each have observations of their
   own set of period ends and forms *)

AssetsTags ==
    {"Assets", "AssetsCurrent", "AssetsNoncurrent", "OperatingIncomeLoss",
     "LiabilitiesCurrent"}

MaxAssetFacts == 4

\* the facts with a null val in every Assets observation
NullAssets(gaap) ==
    [t \in DOMAIN gaap |->
        IF t = "Assets" THEN [i \in DOMAIN gaap[t] |-> [gaap[t][i] EXCEPT !.val = None]]
        ELSE gaap[t]]

InitAssets ==
    /\ pc = "facts"
    /\ \E F \in {G \in SUBSET (AssetsTags \X ObservationCodes) :
                    Cardinality(G) <= MaxAssetFacts} :
           \E null_assets \in BOOLEAN :
               facts = IF null_assets THEN NullAssets(FactsOf(F)) ELSE FactsOf(F)
    /\ include_quarterly \in BOOLEAN
    /\ parsed = None
    /\ quarterly_periods = <<>>
    /\ identified_periods = None /\ requested_end = 0
    /\ CalcIdle /\ RoceIdle /\ ValidateIdle

SpecAssets == InitAssets /\ [][ParseCompanyDataStep]_vars

\* the observations of form ft that the facts hold for a tag
ObservationsOfForm(tag, ft) ==
    IF tag \in DOMAIN facts THEN Range(FormValues(facts[tag], ft)) ELSE {}

\* the list of period records the parse returns for a form
PeriodsOfForm(ft) ==
    IF ft = FORM_10K THEN parsed.annual_periods ELSE parsed.quarterly_periods

\* C30: every period record the parse returns has the assets metric, resolved
\* by the direct Assets tag from an Assets observation of the record's period
\* and form, and the missing list of its ROCE (when it has one) does not name
\* assets; and a form of which the facts hold no Assets observation has no
\* period record, whatever the other tags hold.
C30_AssetsAlwaysDirect ==
    (pc = "parsed" /\ parsed # TypeError) =>
        /\ \A r \in ParsedRecords :
               /\ "assets" \in DOMAIN r.metrics
               /\ r.metrics.assets.method = "Direct Assets tag"
               /\ r.metrics.assets.source.tag = "Assets"
               /\ \E o \in ObservationsOfForm("Assets", r.form) :
                      /\ o.end = r.fiscal_year_end
                      /\ r.metrics.assets.source.end = o.end
                      /\ r.metrics.assets.source.val = o.val
               /\ "missing" \in DOMAIN r.calculated_ratios.roce
                  => \A i \in DOMAIN r.calculated_ratios.roce.missing :
                         r.calculated_ratios.roce.missing[i] # "assets"
        /\ \A ft \in Forms :
               ObservationsOfForm("Assets", ft) = {} => PeriodsOfForm(ft) = <<>>

\* C30 witness: the facts hold an annual Assets observation together with
\* quarterly observations of both component tags and no quarterly Assets
\* observation; the parse with quarterly periods returned an annual record
\* and no quarterly record
C30_Witness ==
    /\ pc = "parsed"
    /\ parsed # TypeError
    /\ include_quarterly
    /\ ObservationsOfForm("Assets", FORM_10Q) = {}
    /\ ObservationsOfForm("AssetsCurrent", FORM_10Q) # {}
    /\ ObservationsOfForm("AssetsNoncurrent", FORM_10Q) # {}
    /\ parsed.annual_periods # <<>>
    /\ parsed.quarterly_periods = <<>>

====
